---- MODULE Spec2Model ----
(***************************************************************************)
(* Node-pipeline execution engine of Narratium.ai.                         *)
(*                                                                         *)
(* NodeBase (src/lib/nodeflow/NodeBase.ts) is modelled step by step: one   *)
(* action per awaited step of NodeBase.execute.  The WorkflowEngine and    *)
(* the NodeContext are not part of the available sources; they are         *)
(* modelled from the design document (sections 4.1 and 4.5).               *)
(***************************************************************************)
EXTENDS Integers, Sequences, FiniteSets, TLC

(***************************************************************************)
(* Bounds                                                                  *)
(***************************************************************************)
MaxVal == 1

\* how often the harness applies resolveInput to the same context
MaxApply == 2

\* how many descriptor fields of the reference definition a generated
\* workflow definition may differ in
MaxEdits == 1

\* how many nodes of one class are constructed
MaxConstruct == 2

(***************************************************************************)
(* Values and stores.  A store maps every key to a value; Undef stands for *)
(* a key that is absent (JavaScript undefined).                            *)
(***************************************************************************)
Undef == 0

Val == 1..MaxVal

MaybeVal == Val \cup {Undef}

\* field names: "a" and "b" are workflow fields, "c" is a node-internal name
\* that only an inputMapping produces
Keys == {"a", "b", "c"}

WorkflowFields == {"a", "b"}

Store == [Keys -> MaybeVal]

EmptyStore == [k \in Keys |-> Undef]

\* the key set of a store (Object.keys)
KeysOf(s) == {k \in Keys : s[k] # Undef}

Range(seq) == {seq[i] : i \in DOMAIN seq}

(***************************************************************************)
(* NodeContext: three stores with has/get/set accessors.                   *)
(***************************************************************************)
hasInput(inp, key) == inp[key] # Undef

getInput(inp, key) == inp[key]

hasCache(cch, key) == cch[key] # Undef

getCache(cch, key) == cch[key]

setCache(cch, key, value) == [cch EXCEPT ![key] = value]

setOutput(outp, key, value) == [outp EXCEPT ![key] = value]

(***************************************************************************)
(* Node categories and node classes.                                       *)
(***************************************************************************)
ENTRY == "ENTRY"

MIDDLE == "MIDDLE"

EXIT == "EXIT"

AFTER == "AFTER"

\* getDefaultCategory of each node class (the constructor takes the category
\* from the class, NodeBase.ts line 23)
getDefaultCategory(typeName) ==
  CASE typeName = "userInput" -> ENTRY
    [] typeName = "worldBook" -> MIDDLE
    [] typeName = "output" -> EXIT
    [] typeName = "memoryStorage" -> AFTER
    [] OTHER -> MIDDLE

\* node classes whose _call is the inherited NodeBase._call
UsesDefaultCall(typeName) == typeName = "userInput"

(***************************************************************************)
(* The workflow definition: a reduced CorrectRAGWorkflow.                  *)
(*   entry -> mid -> exit | AFTER: after1, after2                          *)
(***************************************************************************)
NoMapping == [k \in {} |-> "a"]

\* variant: the successor link of the ENTRY node skips the MIDDLE node
WorkflowSkippingMiddle ==
  << [id |-> "entry", typeName |-> "userInput", category |-> ENTRY,
      next |-> <<"exit">>, initParams |-> <<"a", "b">>, inputFields |-> <<>>,
      outputFields |-> <<"a", "b">>, inputMapping |-> NoMapping],
     [id |-> "mid", typeName |-> "worldBook", category |-> MIDDLE,
      next |-> <<"exit">>, initParams |-> <<>>, inputFields |-> <<"a", "b">>,
      outputFields |-> <<"b">>, inputMapping |-> ("b" :> "c")],
     [id |-> "exit", typeName |-> "output", category |-> EXIT,
      next |-> <<>>, initParams |-> <<>>, inputFields |-> <<"a", "b">>,
      outputFields |-> <<"a", "b">>, inputMapping |-> NoMapping],
     [id |-> "after1", typeName |-> "memoryStorage", category |-> AFTER,
      next |-> <<>>, initParams |-> <<>>, inputFields |-> <<"a", "b">>,
      outputFields |-> <<"b">>, inputMapping |-> ("a" :> "c")],
     [id |-> "after2", typeName |-> "memoryStorage", category |-> AFTER,
      next |-> <<>>, initParams |-> <<>>, inputFields |-> <<"b">>,
      outputFields |-> <<>>, inputMapping |-> NoMapping] >>

Workflow ==
  << [id |-> "entry", typeName |-> "userInput", category |-> ENTRY,
      next |-> <<"mid">>, initParams |-> <<"a", "b">>, inputFields |-> <<>>,
      outputFields |-> <<"a", "b">>, inputMapping |-> NoMapping],
     [id |-> "mid", typeName |-> "worldBook", category |-> MIDDLE,
      next |-> <<"exit">>, initParams |-> <<>>, inputFields |-> <<"a", "b">>,
      outputFields |-> <<"b">>, inputMapping |-> ("b" :> "c")],
     [id |-> "exit", typeName |-> "output", category |-> EXIT,
      next |-> <<>>, initParams |-> <<>>, inputFields |-> <<"a", "b">>,
      outputFields |-> <<"a", "b">>, inputMapping |-> NoMapping],
     [id |-> "after1", typeName |-> "memoryStorage", category |-> AFTER,
      next |-> <<>>, initParams |-> <<>>, inputFields |-> <<"a", "b">>,
      outputFields |-> <<"b">>, inputMapping |-> ("a" :> "c")],
     [id |-> "after2", typeName |-> "memoryStorage", category |-> AFTER,
      next |-> <<>>, initParams |-> <<>>, inputFields |-> <<"b">>,
      outputFields |-> <<>>, inputMapping |-> NoMapping] >>

Nodes == {Workflow[i].id : i \in DOMAIN Workflow}

Desc(n) == Workflow[CHOOSE i \in DOMAIN Workflow : Workflow[i].id = n]

MainNodes == {n \in Nodes : Desc(n).category # AFTER}

AfterNodes == {n \in Nodes : Desc(n).category = AFTER}

EntryNode == CHOOSE n \in Nodes : Desc(n).category = ENTRY

\* the main-chain nodes that follow n along the successors links
RECURSIVE Downstream(_)
Downstream(n) ==
  LET nx == Range(Desc(n).next)
  IN nx \cup UNION {Downstream(m) : m \in nx}

(***************************************************************************)
(* NodeBase: construction and configuration access.                        *)
(***************************************************************************)
\* this.category as set by the constructor
NodeCategory(n) == getDefaultCategory(Desc(n).typeName)

getInitParams(n) == Desc(n).initParams

getInputFields(n) == Desc(n).inputFields

getOutputFields(n) == Desc(n).outputFields

isExitNode(n) == NodeCategory(n) = EXIT

\* variant: the inputMapping is ignored
nodeFieldNameUnmapped(n, f) == f

\* inputMapping[workflowFieldName] || workflowFieldName
nodeFieldName(n, f) ==
  IF f \in DOMAIN Desc(n).inputMapping THEN Desc(n).inputMapping[f] ELSE f

(***************************************************************************)
(* NodeBase.resolveInput                                                   *)
(***************************************************************************)
\* 1) initParams: copy every declared name present in the input store
RECURSIVE injectInitParams(_, _, _)
injectInitParams(fields, inp, acc) ==
  IF fields = <<>> THEN acc
  ELSE LET fieldName == Head(fields)
       IN injectInitParams(Tail(fields), inp,
            IF hasInput(inp, fieldName)
            THEN [acc EXCEPT ![fieldName] = getInput(inp, fieldName)]
            ELSE acc)

\* 2) inputFields: read every declared name present in the cache and store it
\*    under its mapped node field name
RECURSIVE readInputFields(_, _, _, _)
readInputFields(n, fields, cch, acc) ==
  IF fields = <<>> THEN acc
  ELSE LET workflowFieldName == Head(fields)
       IN readInputFields(n, Tail(fields), cch,
            IF hasCache(cch, workflowFieldName)
            THEN [acc EXCEPT ![nodeFieldName(n, workflowFieldName)] =
                                 getCache(cch, workflowFieldName)]
            ELSE acc)

\* variant: the cache is scoped to the successors links, so a node that no
\* node names as a successor sees the run parameters only
resolveInputAlongEdges(n, inp, cch) ==
  IF \E m \in Nodes : n \in Range(Desc(m).next)
  THEN readInputFields(n, getInputFields(n), cch,
                       injectInitParams(getInitParams(n), inp, EmptyStore))
  ELSE injectInitParams(getInitParams(n), inp, EmptyStore)

resolveInput(n, inp, cch) ==
  readInputFields(n, getInputFields(n), cch,
                  injectInitParams(getInitParams(n), inp, EmptyStore))

\* the declared names that resolveInput does not find
missingInputs(n, inp, cch) ==
  {f \in Range(getInitParams(n)) : ~hasInput(inp, f)}
    \cup {f \in Range(getInputFields(n)) : ~hasCache(cch, f)}

\* variant: a missing declared name is treated as fatal
resolveOutcomeStrict(n, inp, cch) ==
  [threw |-> missingInputs(n, inp, cch) # {},
   value |-> resolveInput(n, inp, cch)]

\* how resolveInput ends: a missing name is only warned about
\* (console.warn in both else branches), so it never raises
resolveOutcome(n, inp, cch) ==
  [threw |-> FALSE, value |-> resolveInput(n, inp, cch)]

(***************************************************************************)
(* NodeBase.publishOutput.  A context is a record of the cache, the output *)
(* store and the log of the store writes made so far.                      *)
(***************************************************************************)
\* variant: the EXIT case of the switch is missing
storeDataAlwaysCache(n, key, value, ctx) ==
  [ctx EXCEPT !.cache = setCache(ctx.cache, key, value),
              !.log = ctx.log \cup {<<"cache", key>>}]

\* variant: AFTER nodes publish to the output store as EXIT nodes do
storeDataAfterAsExit(n, key, value, ctx) ==
  IF NodeCategory(n) \in {EXIT, AFTER}
  THEN [ctx EXCEPT !.output = setOutput(ctx.output, key, value),
                   !.log = ctx.log \cup {<<"output", key>>}]
  ELSE [ctx EXCEPT !.cache = setCache(ctx.cache, key, value),
                   !.log = ctx.log \cup {<<"cache", key>>}]

storeData(n, key, value, ctx) ==
  IF NodeCategory(n) = EXIT
  THEN [ctx EXCEPT !.output = setOutput(ctx.output, key, value),
                   !.log = ctx.log \cup {<<"output", key>>}]
  ELSE [ctx EXCEPT !.cache = setCache(ctx.cache, key, value),
                   !.log = ctx.log \cup {<<"cache", key>>}]

RECURSIVE publishFields(_, _, _, _)
publishFields(n, fields, out, ctx) ==
  IF fields = <<>> THEN ctx
  ELSE LET fieldName == Head(fields)
       IN publishFields(n, Tail(fields), out,
            IF out[fieldName] # Undef
            THEN storeData(n, fieldName, out[fieldName], ctx)
            ELSE ctx)

\* variant: every field of the output is published, declared or not
publishOutputUndeclared(n, out, ctx) == publishFields(n, <<"a", "b">>, out, ctx)

publishOutput(n, out, ctx) == publishFields(n, getOutputFields(n), out, ctx)

(***************************************************************************)
(* NodeBase._call (default implementation)                                 *)
(***************************************************************************)
RECURSIVE projectFields(_, _, _)
projectFields(fields, input, acc) ==
  IF fields = <<>> THEN acc
  ELSE LET field == Head(fields)
       IN projectFields(Tail(fields), input,
            IF input[field] # Undef
            THEN [acc EXCEPT ![field] = input[field]]
            ELSE acc)

\* variant: the input is passed through whatever the declared output fields
DefaultCallEchoesInput(n, input) == input

DefaultCall(n, input) ==
  IF Len(getOutputFields(n)) = 0 THEN input
  ELSE projectFields(getOutputFields(n), input, EmptyStore)

\* what the _call of a concrete node class may return: any mapping over the
\* workflow fields (the node logic is an opaque collaborator)
CallOutputs == {o \in Store : KeysOf(o) \subseteq WorkflowFields}

\* node classes that inherit beforeExecute and afterExecute from NodeBase
\* (UserInputNode only forwards to them)
UsesDefaultHooks(typeName) == typeName \in {"userInput", "worldBook"}

\* the steps of a node that can raise: the inherited hooks only log and the
\* inherited _call only copies; a concrete _call can raise (input guards,
\* tool failures) and so can an overridden hook
CanThrow(n, step) ==
  CASE step = "call" -> ~UsesDefaultCall(Desc(n).typeName)
    [] step \in {"before", "after"} -> ~UsesDefaultHooks(Desc(n).typeName)
    [] OTHER -> FALSE

(***************************************************************************)
(* NodeBase.execute, one action per awaited step                           *)
(***************************************************************************)
StepOrder == <<"resolve", "before", "call", "publish", "after">>

\* variant: the output is published before _call has produced it
NextStepPublishFirst(step) ==
  CASE step = "resolve" -> "before"
    [] step = "before" -> "publish"
    [] step = "publish" -> "call"
    [] step = "call" -> "after"
    [] OTHER -> "done"

\* the step that follows a successful step ("done" after the last one)
NextStep(step) ==
  CASE step = "resolve" -> "before"
    [] step = "before" -> "call"
    [] step = "call" -> "publish"
    [] step = "publish" -> "after"
    [] OTHER -> "done"

\* the exception a step raises
ErrOf(step) ==
  CASE step = "resolve" -> "ErrResolve"
    [] step = "before" -> "ErrBefore"
    [] step = "call" -> "ErrCall"
    [] step = "publish" -> "ErrPublish"
    [] OTHER -> "ErrAfter"

NoError == "none"

\* hasOutput tells whether the optional output snapshot is set (an empty
\* snapshot is still a snapshot); ended tells whether endTime is set
NewResult ==
  [status |-> "RUNNING", input |-> EmptyStore, output |-> EmptyStore,
   hasOutput |-> FALSE, error |-> NoError, ended |-> FALSE]

NoResult ==
  [status |-> "NONE", input |-> EmptyStore, output |-> EmptyStore,
   hasOutput |-> FALSE, error |-> NoError, ended |-> FALSE]

\* where execute continues after the catch block: at its return
AfterCatch(step) == "done"

\* variant: the catch block does not set the status
CatchLeavesRunning(res, err) == [res EXCEPT !.error = err, !.ended = TRUE]

\* variant: the catch block does not attach the error
CatchDropsError(res, err) == [res EXCEPT !.status = "FAILED", !.ended = TRUE]

\* variant: the failure is reported as a completed execution
CatchReportsCompleted(res, err) ==
  [res EXCEPT !.status = "COMPLETED", !.error = err, !.ended = TRUE]

\* variant: the catch block swallows the exception
CatchSwallows(res, err) == [res EXCEPT !.status = "COMPLETED", !.ended = TRUE]

\* the catch block followed by finally
Catch(res, err) == [res EXCEPT !.status = "FAILED", !.error = err, !.ended = TRUE]

\* variant: the finally block is missing, endTime is never set
CompleteWithoutEndTime(res, out) ==
  [res EXCEPT !.status = "COMPLETED", !.output = out, !.hasOutput = TRUE]

\* the end of the try block followed by finally
Complete(res, out) ==
  [res EXCEPT !.status = "COMPLETED", !.output = out, !.hasOutput = TRUE,
              !.ended = TRUE]

VARIABLES
  params,        \* run parameters supplied by the caller
  executeAfterNodes, awaitAfterNodes,   \* engine configuration flags
  input, cache, output,                 \* the ExecutionContext
  pc,            \* per node: position inside execute
  result,        \* per node: the NodeExecutionResult
  resolved,      \* per node: resolvedNodeInput (local of execute)
  callOut,       \* per node: output of _call (local of execute)
  steps,         \* per node: the steps of execute that have run, in order
  raised,        \* per node: the exception a step of execute raised, if any
  wlog,          \* per node: the store writes made by its publishOutput
  execCount,     \* per node: number of execute calls
  mainState, afterState, current,       \* the engine
  mainResult,    \* the output mapping read at the end of the main chain
  callerState, callerResult, callerError  \* what the caller of execute got

ctxVars == <<input, cache, output>>

nodeVars == <<pc, result, resolved, callOut, steps, raised, wlog, execCount>>

engineVars == <<mainState, afterState, current, mainResult>>

callerVars == <<callerState, callerResult, callerError>>

cfgVars == <<params, executeAfterNodes, awaitAfterNodes>>

VARIABLES
  definition,    \* the workflow definition handed to construction
  built,         \* construction of the definition: pending, constructed, rejected
  configError,   \* the error construction raised, if any
  executed       \* the nodes of the definition the engine has executed, in order

valVars == <<definition, built, configError, executed>>

VARIABLES
  registry,      \* NodeToolRegistry: the registered tool groups
  constructed,   \* per node class: number of nodes constructed
  toolClass,     \* per node class: this.toolClass of its latest node
  toolPc,        \* position of the running tool call
  request,       \* the method name given to executeTool
  invoked,       \* the tool methods that were applied, in order
  handled,       \* the method names handleError was called with, in order
  toolRaised     \* the exception raised inside the applied tool method, if any

toolVars ==
  <<registry, constructed, toolClass, toolPc, request, invoked, handled,
    toolRaised>>

VARIABLES
  audioCache,    \* TTSService.audioCache: messageId -> audioUrl
  call,          \* per call slot: the generateSpeech / waitForTaskCompletion call in it
  invocations,   \* number of calls made on the service so far
  generated      \* per message: URLs returned by generateSpeech since its entry was cleared

ttsVars == <<audioCache, call, invocations, generated>>

VARIABLES
  panel,         \* TTSSettingsPanel state: enabled, apiKey, autoPlay, workflowId
  localStorage,  \* the four tts_* items of window.localStorage
  saved          \* the tuple of the latest handleSave

panelVars == <<panel, localStorage, saved>>

VARIABLES
  config,        \* the descriptor handed to the node constructor
  node           \* the constructed node: id, name, category, next, params

ctorVars == <<config, node>>

VARIABLES
  states,            \* useTTS: the TTSState of every message (Map with default)
  audioRef,          \* the Audio element: src, playing, the call awaiting play()
  currentPlayingRef, \* the message recorded as playing, if any
  hookCall,          \* per call slot: the generateAndPlay / play / toggle call in it
  autoPlayOption     \* the autoPlay option of the hook

hookVars == <<states, audioRef, currentPlayingRef, hookCall, autoPlayOption>>

VARIABLES
  history        \* a getChatHistory call: the dialogue tree, its path, the result

histVars == <<history>>

uiVars == <<ttsVars, panelVars, ctorVars, hookVars, histVars>>

auxVars == <<valVars, toolVars, uiVars>>

vars == <<cfgVars, ctxVars, nodeVars, engineVars, callerVars, auxVars>>

\* no definition is under construction
ValIdle ==
  /\ definition = <<>>
  /\ built = "pending"
  /\ configError = NoError
  /\ executed = <<>>

\* no tool group is registered and no tool call is running
ToolIdle ==
  /\ registry = <<>>
  /\ constructed = [t \in {} |-> 0]
  /\ toolClass = [t \in {} |-> "none"]
  /\ toolPc = "idle"
  /\ request = "none"
  /\ invoked = <<>>
  /\ handled = <<>>
  /\ toolRaised = NoError

\* no TTS service exists
TtsIdle ==
  /\ audioCache = <<>>
  /\ call = <<>>
  /\ invocations = 0
  /\ generated = <<>>

\* no settings panel is mounted
PanelIdle ==
  /\ panel = <<>>
  /\ localStorage = <<>>
  /\ saved = <<>>

\* no node has been constructed on its own and no useTTS hook is mounted
CtorIdle ==
  /\ config = <<>>
  /\ node = <<>>
  /\ states = <<>>
  /\ audioRef = <<>>
  /\ currentPlayingRef = "none"
  /\ hookCall = <<>>
  /\ autoPlayOption = FALSE
  /\ history = <<>>

Init ==
  /\ CtorIdle
  /\ ValIdle
  /\ ToolIdle
  /\ TtsIdle
  /\ PanelIdle
  /\ params \in {p \in Store : KeysOf(p) \subseteq WorkflowFields}
  /\ executeAfterNodes \in BOOLEAN
  /\ awaitAfterNodes \in BOOLEAN
  /\ input = EmptyStore
  /\ cache = EmptyStore
  /\ output = EmptyStore
  /\ pc = [n \in Nodes |-> "idle"]
  /\ result = [n \in Nodes |-> NoResult]
  /\ resolved = [n \in Nodes |-> EmptyStore]
  /\ callOut = [n \in Nodes |-> EmptyStore]
  /\ steps = [n \in Nodes |-> <<>>]
  /\ raised = [n \in Nodes |-> NoError]
  /\ wlog = [n \in Nodes |-> {}]
  /\ execCount = [n \in Nodes |-> 0]
  /\ mainState = "INITIALIZED"
  /\ afterState = "NONE"
  /\ current = "none"
  /\ mainResult = EmptyStore
  /\ callerState = "waiting"
  /\ callerResult = EmptyStore
  /\ callerError = NoError

\* execute is entered: the result is created with status RUNNING and
\* resolveInput runs (it has no suspension point of its own, so it completes
\* before execute first yields)
ExecBegin(n) ==
  /\ pc[n] = "idle"
  /\ execCount' = [execCount EXCEPT ![n] = @ + 1]
  /\ LET r == resolveOutcome(n, input, cache)
     IN IF r.threw
        THEN /\ pc' = [pc EXCEPT ![n] = AfterCatch("resolve")]
             /\ result' = [result EXCEPT ![n] = Catch(NewResult, ErrOf("resolve"))]
             /\ raised' = [raised EXCEPT ![n] = ErrOf("resolve")]
             /\ UNCHANGED resolved
        ELSE /\ pc' = [pc EXCEPT ![n] = NextStep("resolve")]
             /\ result' = [result EXCEPT ![n] = NewResult]
             /\ resolved' = [resolved EXCEPT ![n] = r.value]
             /\ UNCHANGED raised
  /\ steps' = [steps EXCEPT ![n] = Append(@, "resolve")]
  /\ UNCHANGED <<callOut, wlog>>

\* a step raises: the catch block finalizes the result, no later step runs
StepFails(n, step) ==
  /\ pc[n] = step
  /\ CanThrow(n, step)
  /\ pc' = [pc EXCEPT ![n] = AfterCatch(step)]
  /\ result' = [result EXCEPT ![n] = Catch(result[n], ErrOf(step))]
  /\ steps' = [steps EXCEPT ![n] = Append(@, step)]
  /\ raised' = [raised EXCEPT ![n] = ErrOf(step)]
  /\ UNCHANGED <<resolved, callOut, wlog, execCount>>
  /\ UNCHANGED <<cfgVars, ctxVars, engineVars, callerVars>>
  /\ UNCHANGED auxVars

StepBefore(n) ==
  /\ pc[n] = "before"
  /\ result' = [result EXCEPT ![n].input = resolved[n]]
  /\ pc' = [pc EXCEPT ![n] = NextStep("before")]
  /\ steps' = [steps EXCEPT ![n] = Append(@, "before")]
  /\ UNCHANGED <<resolved, callOut, raised, wlog, execCount>>
  /\ UNCHANGED <<cfgVars, ctxVars, engineVars, callerVars>>
  /\ UNCHANGED auxVars

StepCall(n) ==
  /\ pc[n] = "call"
  /\ \E o \in CallOutputs :
       /\ UsesDefaultCall(Desc(n).typeName) => o = DefaultCall(n, resolved[n])
       /\ callOut' = [callOut EXCEPT ![n] = o]
  /\ pc' = [pc EXCEPT ![n] = NextStep("call")]
  /\ steps' = [steps EXCEPT ![n] = Append(@, "call")]
  /\ UNCHANGED <<result, resolved, raised, wlog, execCount>>
  /\ UNCHANGED <<cfgVars, ctxVars, engineVars, callerVars>>
  /\ UNCHANGED auxVars

\* variant: publishing also stores the declared fields in the input store
StepPublishIntoInput(n) ==
  /\ pc[n] = "publish"
  /\ LET ctx == publishOutput(n, callOut[n],
                              [cache |-> cache, output |-> output, log |-> {}])
     IN /\ cache' = ctx.cache
        /\ output' = ctx.output
        /\ wlog' = [wlog EXCEPT ![n] = ctx.log]
        /\ input' = [k \in Keys |->
                       IF \E w \in ctx.log : w[2] = k THEN callOut[n][k]
                       ELSE input[k]]
  /\ pc' = [pc EXCEPT ![n] = NextStep("publish")]
  /\ steps' = [steps EXCEPT ![n] = Append(@, "publish")]
  /\ UNCHANGED <<result, resolved, callOut, raised, execCount>>
  /\ UNCHANGED <<cfgVars, engineVars, callerVars>>
  /\ UNCHANGED auxVars

StepPublish(n) ==
  /\ pc[n] = "publish"
  /\ LET ctx == publishOutput(n, callOut[n],
                              [cache |-> cache, output |-> output, log |-> {}])
     IN /\ cache' = ctx.cache
        /\ output' = ctx.output
        /\ wlog' = [wlog EXCEPT ![n] = ctx.log]
  /\ pc' = [pc EXCEPT ![n] = NextStep("publish")]
  /\ steps' = [steps EXCEPT ![n] = Append(@, "publish")]
  /\ UNCHANGED <<input, result, resolved, callOut, raised, execCount>>
  /\ UNCHANGED <<cfgVars, engineVars, callerVars>>
  /\ UNCHANGED auxVars

StepAfter(n) ==
  /\ pc[n] = "after"
  /\ result' = [result EXCEPT ![n] = Complete(result[n], callOut[n])]
  /\ pc' = [pc EXCEPT ![n] = NextStep("after")]
  /\ steps' = [steps EXCEPT ![n] = Append(@, "after")]
  /\ UNCHANGED <<resolved, callOut, raised, wlog, execCount>>
  /\ UNCHANGED <<cfgVars, ctxVars, engineVars, callerVars>>
  /\ UNCHANGED auxVars

(***************************************************************************)
(* WorkflowEngine.execute                                                  *)
(***************************************************************************)
\* the engine drops a node's result object once it has looked at it
Forget(f, ns) == [n \in Nodes |-> IF n \in ns THEN EmptyStore ELSE f[n]]

ForgetResult(ns) ==
  [n \in Nodes |->
     IF n \in ns
     THEN [result[n] EXCEPT !.input = EmptyStore, !.output = EmptyStore]
     ELSE result[n]]

\* step 1: build the context and seed the input store
EngineStart ==
  /\ mainState = "INITIALIZED"
  /\ input' = params
  /\ mainState' = "RUNNING_MAIN_CHAIN"
  /\ current' = EntryNode
  /\ UNCHANGED <<cache, output, afterState, mainResult>>
  /\ UNCHANGED <<cfgVars, nodeVars, callerVars>>
  /\ UNCHANGED auxVars

\* step 2: execute the current main-chain node
MainExecute(n) ==
  /\ mainState = "RUNNING_MAIN_CHAIN"
  /\ current = n
  /\ ExecBegin(n)
  /\ UNCHANGED <<cfgVars, ctxVars, engineVars, callerVars>>
  /\ UNCHANGED auxVars

\* variant: the engine does not wait for execute to settle before it moves on
EngineAdvanceEarly(n) ==
  /\ mainState = "RUNNING_MAIN_CHAIN"
  /\ current = n
  /\ pc[n] # "idle"
  /\ Desc(n).category # EXIT
  /\ Desc(n).next # <<>>
  /\ current' = Head(Desc(n).next)
  /\ UNCHANGED <<mainState, afterState, mainResult>>
  /\ UNCHANGED <<cfgVars, ctxVars, nodeVars, callerVars>>
  /\ UNCHANGED auxVars

\* step 2: a completed node that is not EXIT hands over to its successor
EngineAdvance(n) ==
  /\ mainState = "RUNNING_MAIN_CHAIN"
  /\ current = n
  /\ pc[n] = "done"
  /\ result[n].status = "COMPLETED"
  /\ Desc(n).category # EXIT
  /\ Desc(n).next # <<>>
  /\ current' = Head(Desc(n).next)
  /\ result' = ForgetResult({n})
  /\ resolved' = Forget(resolved, {n})
  /\ callOut' = Forget(callOut, {n})
  /\ UNCHANGED <<pc, steps, raised, wlog, execCount>>
  /\ UNCHANGED <<mainState, afterState, mainResult>>
  /\ UNCHANGED <<cfgVars, ctxVars, callerVars>>
  /\ UNCHANGED auxVars

\* step 2: a FAILED result aborts the chain and raises the captured error
EngineAbort(n) ==
  /\ mainState = "RUNNING_MAIN_CHAIN"
  /\ current = n
  /\ pc[n] = "done"
  /\ result[n].status = "FAILED"
  /\ current' = "none"
  /\ callerState' = "raised"
  /\ callerError' = result[n].error
  /\ UNCHANGED callerResult
  /\ UNCHANGED <<mainState, afterState, mainResult>>
  /\ UNCHANGED <<cfgVars, ctxVars, nodeVars>>
  /\ UNCHANGED auxVars

\* step 3: a completed EXIT node: the output store is read as the result
EngineReturn(n) ==
  /\ mainState = "RUNNING_MAIN_CHAIN"
  /\ current = n
  /\ pc[n] = "done"
  /\ result[n].status = "COMPLETED"
  /\ Desc(n).category = EXIT
  /\ mainResult' = output
  /\ mainState' = "MAIN_CHAIN_COMPLETE"
  /\ current' = "none"
  /\ afterState' = IF executeAfterNodes /\ AfterNodes # {}
                   THEN "AFTER_PENDING" ELSE "NONE"
  /\ result' = ForgetResult({n})
  /\ resolved' = Forget(resolved, {n})
  /\ callOut' = Forget(callOut, {n})
  /\ UNCHANGED <<pc, steps, raised, wlog, execCount>>
  /\ UNCHANGED <<cfgVars, ctxVars, callerVars>>
  /\ UNCHANGED auxVars

\* whether the background branch no longer holds back the caller
AfterSettled == afterState \in {"NONE", "AFTER_COMPLETE", "AFTER_FAILED"}

\* variant: the caller is never made to wait for the AFTER nodes
DeliverWithoutWaiting ==
  /\ mainState = "MAIN_CHAIN_COMPLETE"
  /\ callerState = "waiting"
  /\ callerState' = "returned"
  /\ callerResult' = mainResult
  /\ UNCHANGED callerError
  /\ UNCHANGED <<cfgVars, ctxVars, nodeVars, engineVars>>
  /\ UNCHANGED auxVars

\* execute returns the result to the caller: at once when the AFTER nodes
\* are detached or not run, after they settled when they are awaited
Deliver ==
  /\ mainState = "MAIN_CHAIN_COMPLETE"
  /\ callerState = "waiting"
  /\ awaitAfterNodes => AfterSettled
  /\ callerState' = "returned"
  /\ callerResult' = mainResult
  /\ UNCHANGED callerError
  /\ UNCHANGED <<cfgVars, ctxVars, nodeVars, engineVars>>
  /\ UNCHANGED auxVars

\* step 4: an AFTER node is started against the same context
AfterExecute(n) ==
  /\ afterState = "AFTER_PENDING"
  /\ n \in AfterNodes
  /\ awaitAfterNodes \/ callerState = "returned"
  /\ ExecBegin(n)
  /\ UNCHANGED <<cfgVars, ctxVars, engineVars, callerVars>>
  /\ UNCHANGED auxVars

\* variant: the error of a failed AFTER node reaches a caller that awaits
AfterSettleSurfacing ==
  /\ afterState = "AFTER_PENDING"
  /\ \A n \in AfterNodes : pc[n] = "done"
  /\ LET failed == {n \in AfterNodes : result[n].status = "FAILED"}
     IN /\ afterState' = IF failed # {} THEN "AFTER_FAILED" ELSE "AFTER_COMPLETE"
        /\ IF failed # {} /\ callerState = "waiting"
           THEN /\ callerState' = "raised"
                /\ callerError' = result[CHOOSE n \in failed : TRUE].error
           ELSE UNCHANGED <<callerState, callerError>>
  /\ result' = ForgetResult(AfterNodes)
  /\ resolved' = Forget(resolved, AfterNodes)
  /\ callOut' = Forget(callOut, AfterNodes)
  /\ UNCHANGED <<pc, steps, raised, wlog, execCount>>
  /\ UNCHANGED <<mainState, current, mainResult>>
  /\ UNCHANGED <<cfgVars, ctxVars, callerResult>>
  /\ UNCHANGED auxVars

\* step 4: every AFTER node has finished; failures are only logged
AfterSettle ==
  /\ afterState = "AFTER_PENDING"
  /\ \A n \in AfterNodes : pc[n] = "done"
  /\ afterState' = IF \E n \in AfterNodes : result[n].status = "FAILED"
                   THEN "AFTER_FAILED" ELSE "AFTER_COMPLETE"
  /\ result' = ForgetResult(AfterNodes)
  /\ resolved' = Forget(resolved, AfterNodes)
  /\ callOut' = Forget(callOut, AfterNodes)
  /\ UNCHANGED <<pc, steps, raised, wlog, execCount>>
  /\ UNCHANGED <<mainState, current, mainResult>>
  /\ UNCHANGED <<cfgVars, ctxVars, callerVars>>
  /\ UNCHANGED auxVars

Next ==
  \/ EngineStart
  \/ \E n \in Nodes : MainExecute(n)
  \/ \E n \in Nodes : StepBefore(n)
  \/ \E n \in Nodes : StepCall(n)
  \/ \E n \in Nodes : StepPublish(n)
  \/ \E n \in Nodes : StepAfter(n)
  \/ \E n \in Nodes : \E i \in DOMAIN StepOrder : StepFails(n, StepOrder[i])
  \/ \E n \in Nodes : EngineAdvance(n)
  \/ \E n \in Nodes : EngineAbort(n)
  \/ \E n \in Nodes : EngineReturn(n)
  \/ Deliver
  \/ \E n \in Nodes : AfterExecute(n)
  \/ AfterSettle

Spec == Init /\ [][Next]_vars

TypeOK ==
  /\ input \in Store /\ cache \in Store /\ output \in Store
  /\ pc \in [Nodes -> {"idle", "before", "call", "publish", "after", "done"}]
  /\ \A n \in Nodes : result[n].status \in {"NONE", "RUNNING", "COMPLETED", "FAILED"}
  /\ mainState \in {"INITIALIZED", "RUNNING_MAIN_CHAIN", "MAIN_CHAIN_COMPLETE"}
  /\ afterState \in {"NONE", "AFTER_PENDING", "AFTER_COMPLETE", "AFTER_FAILED"}
  /\ callerState \in {"waiting", "returned", "raised"}

(***************************************************************************)
(* A harness for the functions of one node: resolveInput is applied, more  *)
(* than once, to a context that holds any values, and the inherited _call  *)
(* is applied to the input it resolved.  The node under test is current.   *)
(***************************************************************************)
FnInit ==
  /\ CtorIdle
  /\ ValIdle
  /\ ToolIdle
  /\ TtsIdle
  /\ PanelIdle
  /\ current \in Nodes
  /\ input \in {p \in Store : KeysOf(p) \subseteq WorkflowFields}
  /\ cache \in {c \in Store : KeysOf(c) \subseteq WorkflowFields}
  /\ output \in {o \in Store : KeysOf(o) \subseteq WorkflowFields}
  /\ params = input
  /\ executeAfterNodes = FALSE
  /\ awaitAfterNodes = FALSE
  /\ pc = [n \in Nodes |-> "idle"]
  /\ result = [n \in Nodes |-> NoResult]
  /\ resolved = [n \in Nodes |-> EmptyStore]
  /\ callOut = [n \in Nodes |-> EmptyStore]
  /\ steps = [n \in Nodes |-> <<>>]
  /\ raised = [n \in Nodes |-> NoError]
  /\ wlog = [n \in Nodes |-> {}]
  /\ execCount = [n \in Nodes |-> 0]
  /\ mainState = "INITIALIZED"
  /\ afterState = "NONE"
  /\ mainResult = EmptyStore
  /\ callerState = "waiting"
  /\ callerResult = EmptyStore
  /\ callerError = NoError

\* variant: reading a cache entry removes it from the cache
FnResolveConsuming(n) ==
  /\ current = n
  /\ execCount[n] < MaxApply
  /\ "call" \notin Range(steps[n])
  /\ resolved' = [resolved EXCEPT ![n] = resolveOutcome(n, input, cache).value]
  /\ cache' = [k \in Keys |->
                 IF k \in Range(getInputFields(n)) THEN Undef ELSE cache[k]]
  /\ execCount' = [execCount EXCEPT ![n] = @ + 1]
  /\ steps' = [steps EXCEPT ![n] = Append(@, "resolve")]
  /\ UNCHANGED <<input, output, pc, result, callOut, raised, wlog>>
  /\ UNCHANGED <<cfgVars, engineVars, callerVars>>
  /\ UNCHANGED auxVars

\* variant: a name missing from the cache is looked up in the output store
FnResolveReadingOutput(n) ==
  /\ current = n
  /\ execCount[n] < MaxApply
  /\ "call" \notin Range(steps[n])
  /\ resolved' = [resolved EXCEPT ![n] =
       resolveOutcome(n, input,
                      [k \in Keys |-> IF hasCache(cache, k) THEN cache[k]
                                      ELSE output[k]]).value]
  /\ execCount' = [execCount EXCEPT ![n] = @ + 1]
  /\ steps' = [steps EXCEPT ![n] = Append(@, "resolve")]
  /\ UNCHANGED <<pc, result, callOut, raised, wlog>>
  /\ UNCHANGED <<cfgVars, ctxVars, engineVars, callerVars>>
  /\ UNCHANGED auxVars

\* resolveInput is applied to the context: it only calls the has/get
\* accessors of the context, so the three stores stay as they are
FnResolve(n) ==
  /\ current = n
  /\ execCount[n] < MaxApply
  /\ "call" \notin Range(steps[n])
  /\ resolved' = [resolved EXCEPT ![n] = resolveOutcome(n, input, cache).value]
  /\ execCount' = [execCount EXCEPT ![n] = @ + 1]
  /\ steps' = [steps EXCEPT ![n] = Append(@, "resolve")]
  /\ UNCHANGED <<pc, result, callOut, raised, wlog>>
  /\ UNCHANGED <<cfgVars, ctxVars, engineVars, callerVars>>
  /\ UNCHANGED auxVars

\* the inherited _call is applied to the resolved input
FnDefaultCall(n) ==
  /\ current = n
  /\ execCount[n] > 0
  /\ "call" \notin Range(steps[n])
  /\ callOut' = [callOut EXCEPT ![n] = DefaultCall(n, resolved[n])]
  /\ steps' = [steps EXCEPT ![n] = Append(@, "call")]
  /\ UNCHANGED <<pc, result, resolved, raised, wlog, execCount>>
  /\ UNCHANGED <<cfgVars, ctxVars, engineVars, callerVars>>
  /\ UNCHANGED auxVars

\* between two applications of resolveInput of node n, the EXIT node of the
\* workflow publishes an arbitrary _call output: publishOutput stores its
\* declared fields in the output store and leaves input and cache alone
FnExitPublishes(n) ==
  /\ current = n
  /\ execCount[n] > 0
  /\ execCount[n] < MaxApply
  /\ steps[n][Len(steps[n])] = "resolve"
  /\ \E x \in MainNodes, o \in CallOutputs :
       /\ isExitNode(x)
       /\ LET ctx == publishOutput(x, o,
                       [cache |-> cache, output |-> output, log |-> {}])
          IN /\ ctx.output # output
             /\ output' = ctx.output
             /\ cache' = ctx.cache
  /\ steps' = [steps EXCEPT ![n] = Append(@, "setOutput")]
  /\ UNCHANGED <<input, pc, result, resolved, callOut, raised, wlog, execCount>>
  /\ UNCHANGED <<cfgVars, engineVars, callerVars>>
  /\ UNCHANGED auxVars

FnNext ==
  \/ \E n \in Nodes : FnResolve(n)
  \/ \E n \in Nodes : FnDefaultCall(n)
  \/ \E n \in Nodes : FnExitPublishes(n)

FnSpec == FnInit /\ [][FnNext]_vars

(***************************************************************************)
(* The stand-still values of the node, engine and caller variables, for    *)
(* the specifications that do not run the engine.                          *)
(***************************************************************************)
MainIdle ==
  /\ params = EmptyStore
  /\ executeAfterNodes = FALSE
  /\ awaitAfterNodes = FALSE
  /\ input = EmptyStore
  /\ output = EmptyStore
  /\ pc = [n \in Nodes |-> "idle"]
  /\ result = [n \in Nodes |-> NoResult]
  /\ resolved = [n \in Nodes |-> EmptyStore]
  /\ callOut = [n \in Nodes |-> EmptyStore]
  /\ steps = [n \in Nodes |-> <<>>]
  /\ raised = [n \in Nodes |-> NoError]
  /\ wlog = [n \in Nodes |-> {}]
  /\ execCount = [n \in Nodes |-> 0]
  /\ mainState = "INITIALIZED"
  /\ afterState = "NONE"
  /\ current = "none"
  /\ mainResult = EmptyStore
  /\ callerState = "waiting"
  /\ callerResult = EmptyStore
  /\ callerError = NoError

(***************************************************************************)
(* GraphValidator.  D is a workflow definition: a sequence of descriptors. *)
(***************************************************************************)
Ids(D) == {D[i].id : i \in DOMAIN D}

DescIn(D, n) == D[CHOOSE i \in DOMAIN D : D[i].id = n]

\* the successors of n that are nodes of D
Succ(D, n) == Range(DescIn(D, n).next) \cap Ids(D)

\* the nodes other than n that have n among their successors
Preds(D, n) == {m \in Ids(D) \ {n} : n \in Succ(D, m)}

\* the nodes reached from the nodes S by following successors without
\* entering a node of X
RECURSIVE ReachFrom(_, _, _)
ReachFrom(D, S, X) ==
  LET more == (S \cup UNION {Succ(D, n) : n \in S}) \ X
  IN IF more = S THEN S ELSE ReachFrom(D, more, X)

\* the nodes from which n is reached by one or more successor links
Ancestors(D, n) == {m \in Ids(D) \ {n} : n \in ReachFrom(D, {m}, {})}

\* the nodes no other node leads to
Roots(D) == {n \in Ids(D) : Preds(D, n) = {}}

EntryRoots(D) == {n \in Roots(D) : DescIn(D, n).category = ENTRY}

\* p lies on every path from the entry point to n
Precedes(D, p, n) ==
  /\ p # n
  /\ n \in ReachFrom(D, EntryRoots(D), {})
  /\ n \notin ReachFrom(D, EntryRoots(D) \ {p}, {p})

\* rule 1: every id in a successors list is a descriptor
Rule1(D) == \A i \in DOMAIN D : Range(D[i].next) \subseteq Ids(D)

\* rule 2: exactly one node is reachable from no other node, tagged ENTRY
Rule2(D) == \E r \in Ids(D) : Roots(D) = {r} /\ DescIn(D, r).category = ENTRY

\* rule 3: an EXIT node is reachable from ENTRY
Rule3(D) ==
  \E x \in ReachFrom(D, EntryRoots(D), {}) : DescIn(D, x).category = EXIT

\* rule 4, one field: produced by a node that precedes n on every path, or an
\* initParam of ENTRY or of a node upstream of n
FieldProducible(D, n, f) ==
  \/ \E p \in Ids(D) :
       Precedes(D, p, n) /\ f \in Range(DescIn(D, p).outputFields)
  \/ \E e \in EntryRoots(D) : f \in Range(DescIn(D, e).initParams)
  \/ \E p \in Ancestors(D, n) : f \in Range(DescIn(D, p).initParams)

\* variant: the input fields are not checked
Rule4NotChecked(D) == TRUE

\* rule 4: every input field of every node is producible
Rule4(D) ==
  \A n \in Ids(D) : \A f \in Range(DescIn(D, n).inputFields) :
    FieldProducible(D, n, f)

\* rule 5: only EXIT nodes (and AFTER nodes behind them) lead to an AFTER node
Rule5(D) ==
  \A n \in Ids(D) :
    DescIn(D, n).category = AFTER =>
      \A m \in Preds(D, n) : DescIn(D, m).category \in {EXIT, AFTER}

validate(D) == Rule1(D) /\ Rule2(D) /\ Rule3(D) /\ Rule4(D) /\ Rule5(D)

(***************************************************************************)
(* The workflow definitions handed to construction: the reference chain    *)
(* entry -> middle -> exit -> after and every definition that differs from *)
(* it in at most MaxEdits descriptor fields.                               *)
(***************************************************************************)
ReferenceDefinition ==
  << [id |-> "e", category |-> ENTRY, next |-> <<"m">>,
      initParams |-> <<"a">>, inputFields |-> <<>>, outputFields |-> <<"a">>],
     [id |-> "m", category |-> MIDDLE, next |-> <<"x">>,
      initParams |-> <<>>, inputFields |-> <<"a">>, outputFields |-> <<"b">>],
     [id |-> "x", category |-> EXIT, next |-> <<"f">>,
      initParams |-> <<>>, inputFields |-> <<"b">>, outputFields |-> <<"b">>],
     [id |-> "f", category |-> AFTER, next |-> <<>>,
      initParams |-> <<>>, inputFields |-> <<"a">>, outputFields |-> <<>>] >>

Categories == {ENTRY, MIDDLE, EXIT, AFTER}

\* successors lists: none, one node (possibly one that does not exist), two
NextChoices ==
  LET ids == Ids(ReferenceDefinition)
  IN {<<>>} \cup {<<j>> : j \in ids \cup {"ghost"}}
     \cup {<<"m", "x">>, <<"m", "f">>, <<"x", "f">>}

FieldChoices == {<<>>, <<"a">>, <<"b">>}

\* the definitions that differ from D in one field of one descriptor
EditsOf(D) ==
  UNION {
      {[D EXCEPT ![i].category = c] : c \in Categories}
        \cup {[D EXCEPT ![i].next = nx] : nx \in NextChoices}
        \cup {[D EXCEPT ![i].initParams = fl] : fl \in FieldChoices}
        \cup {[D EXCEPT ![i].inputFields = fl] : fl \in FieldChoices}
        \cup {[D EXCEPT ![i].outputFields = fl] : fl \in FieldChoices}
    : i \in DOMAIN D}

RECURSIVE EditsWithin(_)
EditsWithin(k) ==
  IF k = 0 THEN {ReferenceDefinition}
  ELSE LET S == EditsWithin(k - 1)
       IN S \cup UNION {EditsOf(D) : D \in S}

Definitions == EditsWithin(MaxEdits)

(***************************************************************************)
(***************************************************************************)
(* The shipped workflow definitions                                        *)
(***************************************************************************)
\* DialogueWorkflow.getWorkflowConfig: the descriptors in declaration order
\* (the inputMapping of world-book-1 renames a field inside the node only)
DialogueWorkflowConfig ==
  << [id |-> "user-input-1", category |-> ENTRY,
      next |-> <<"plugin-message-1">>,
      initParams |-> <<"characterId", "userInput", "number", "language",
                       "username", "modelName", "apiKey", "baseUrl",
                       "llmType", "temperature", "fastModel",
                       "systemPresetType", "streaming", "streamUsage">>,
      inputFields |-> <<>>,
      outputFields |-> <<"characterId", "userInput", "number", "language",
                         "username", "modelName", "apiKey", "baseUrl",
                         "llmType", "temperature", "fastModel",
                         "systemPresetType", "streaming", "streamUsage">>],
     [id |-> "plugin-message-1", category |-> MIDDLE,
      next |-> <<"preset-1">>,
      initParams |-> <<>>,
      inputFields |-> <<"characterId", "userInput">>,
      outputFields |-> <<"characterId", "userInput", "number", "language",
                         "username", "modelName", "apiKey", "baseUrl",
                         "llmType", "temperature", "fastModel",
                         "systemPresetType", "streaming", "streamUsage">>],
     [id |-> "preset-1", category |-> MIDDLE,
      next |-> <<"context-1">>,
      initParams |-> <<>>,
      inputFields |-> <<"characterId", "language", "username", "number",
                        "fastModel", "systemPresetType">>,
      outputFields |-> <<"systemMessage", "userMessage", "presetId">>],
     [id |-> "context-1", category |-> MIDDLE,
      next |-> <<"world-book-1">>,
      initParams |-> <<>>,
      inputFields |-> <<"userMessage", "characterId", "userInput">>,
      outputFields |-> <<"userMessage">>],
     [id |-> "world-book-1", category |-> MIDDLE,
      next |-> <<"llm-1">>,
      initParams |-> <<>>,
      inputFields |-> <<"systemMessage", "userMessage", "characterId",
                        "language", "username", "userInput">>,
      outputFields |-> <<"systemMessage", "userMessage">>],
     [id |-> "llm-1", category |-> MIDDLE,
      next |-> <<"regex-1">>,
      initParams |-> <<>>,
      inputFields |-> <<"systemMessage", "userMessage", "modelName",
                        "apiKey", "baseUrl", "llmType", "temperature",
                        "language", "streaming", "streamUsage">>,
      outputFields |-> <<"llmResponse">>],
     [id |-> "regex-1", category |-> MIDDLE,
      next |-> <<"plugin-1">>,
      initParams |-> <<>>,
      inputFields |-> <<"llmResponse", "characterId">>,
      outputFields |-> <<"thinkingContent", "screenContent",
                         "fullResponse", "nextPrompts", "event">>],
     [id |-> "plugin-1", category |-> MIDDLE,
      next |-> <<"output-1">>,
      initParams |-> <<>>,
      inputFields |-> <<"thinkingContent", "screenContent", "fullResponse",
                        "nextPrompts", "event", "characterId">>,
      outputFields |-> <<"thinkingContent", "screenContent",
                         "fullResponse", "nextPrompts", "event">>],
     [id |-> "output-1", category |-> EXIT,
      next |-> <<>>,
      initParams |-> <<>>,
      inputFields |-> <<"thinkingContent", "screenContent", "fullResponse",
                        "nextPrompts", "event">>,
      outputFields |-> <<"thinkingContent", "screenContent",
                         "fullResponse", "nextPrompts", "event">>] >>

\* CorrectRAGWorkflow.getWorkflowConfig
CorrectRAGWorkflowConfig ==
  << [id |-> "user-input-1", category |-> ENTRY,
      next |-> <<"preset-1">>,
      initParams |-> <<"characterId", "userInput", "number", "language",
                       "username", "modelName", "apiKey", "baseUrl",
                       "llmType", "temperature", "fastModel",
                       "maxMemories", "enableMemoryStorage">>,
      inputFields |-> <<>>,
      outputFields |-> <<"characterId", "userInput", "number", "language",
                         "username", "modelName", "apiKey", "baseUrl",
                         "llmType", "temperature", "fastModel",
                         "maxMemories", "enableMemoryStorage">>],
     [id |-> "preset-1", category |-> MIDDLE,
      next |-> <<"context-1">>,
      initParams |-> <<>>,
      inputFields |-> <<"characterId", "language", "username", "number",
                        "fastModel">>,
      outputFields |-> <<"systemMessage", "userMessage", "presetId">>],
     [id |-> "context-1", category |-> MIDDLE,
      next |-> <<"memory-retrieval-1">>,
      initParams |-> <<>>,
      inputFields |-> <<"userMessage", "characterId", "userInput">>,
      outputFields |-> <<"userMessage", "conversationContext">>],
     [id |-> "memory-retrieval-1", category |-> MIDDLE,
      next |-> <<"world-book-1">>,
      initParams |-> <<>>,
      inputFields |-> <<"characterId", "userInput", "systemMessage",
                        "apiKey", "baseUrl", "language", "maxMemories",
                        "username">>,
      outputFields |-> <<"systemMessage", "memoryPrompt">>],
     [id |-> "world-book-1", category |-> MIDDLE,
      next |-> <<"llm-1">>,
      initParams |-> <<>>,
      inputFields |-> <<"systemMessage", "userMessage", "characterId",
                        "language", "username", "userInput">>,
      outputFields |-> <<"systemMessage", "userMessage">>],
     [id |-> "llm-1", category |-> MIDDLE,
      next |-> <<"regex-1">>,
      initParams |-> <<>>,
      inputFields |-> <<"systemMessage", "userMessage", "modelName",
                        "apiKey", "baseUrl", "llmType", "temperature",
                        "language">>,
      outputFields |-> <<"llmResponse">>],
     [id |-> "regex-1", category |-> MIDDLE,
      next |-> <<"output-1">>,
      initParams |-> <<>>,
      inputFields |-> <<"llmResponse", "characterId">>,
      outputFields |-> <<"replacedText", "screenContent", "fullResponse",
                         "nextPrompts", "event">>],
     [id |-> "output-1", category |-> EXIT,
      next |-> <<>>,
      initParams |-> <<>>,
      inputFields |-> <<"replacedText", "screenContent", "fullResponse",
                        "nextPrompts", "event", "presetId">>,
      outputFields |-> <<"replacedText", "screenContent", "fullResponse",
                         "nextPrompts", "event", "presetId">>],
     [id |-> "memory-storage-1", category |-> AFTER,
      next |-> <<>>,
      initParams |-> <<>>,
      inputFields |-> <<"characterId", "userInput", "fullResponse",
                        "conversationContext", "apiKey", "baseUrl",
                        "language", "enableMemoryStorage", "replacedText",
                        "screenContent", "nextPrompts", "event",
                        "presetId">>,
      outputFields |-> <<>>] >>

\* variant: output-1 names memory-storage-1 as its successor
CorrectRAGLinked ==
  [CorrectRAGWorkflowConfig EXCEPT ![8].next = <<"memory-storage-1">>]

\* variant: preset-1 does not declare presetId as an output field
CorrectRAGWithoutPresetId ==
  [CorrectRAGWorkflowConfig EXCEPT
     ![2].outputFields = <<"systemMessage", "userMessage">>]

\* the definitions the two workflow classes are constructed from
DialogueWorkflow == DialogueWorkflowConfig

CorrectRAGWorkflow == CorrectRAGWorkflowConfig

ShippedDefinitions == {DialogueWorkflow, CorrectRAGWorkflow}

(* WorkflowDefinition construction and the start of its execution          *)
(***************************************************************************)
ValInit ==
  /\ CtorIdle
  /\ definition \in Definitions \cup ShippedDefinitions
  /\ built = "pending"
  /\ configError = NoError
  /\ executed = <<>>
  /\ cache = EmptyStore
  /\ MainIdle
  /\ ToolIdle
  /\ TtsIdle
  /\ PanelIdle

\* variant: construction does not consult the validator
ConstructUnchecked ==
  /\ built = "pending"
  /\ built' = "constructed"
  /\ UNCHANGED <<definition, configError, executed>>
  /\ UNCHANGED <<cfgVars, ctxVars, nodeVars, engineVars, callerVars, toolVars, uiVars>>

\* construction validates once: it succeeds or raises ConfigurationError
Construct ==
  /\ built = "pending"
  /\ IF validate(definition)
     THEN built' = "constructed" /\ UNCHANGED configError
     ELSE built' = "rejected" /\ configError' = "ConfigurationError"
  /\ UNCHANGED <<definition, executed>>
  /\ UNCHANGED <<cfgVars, ctxVars, nodeVars, engineVars, callerVars, toolVars, uiVars>>

\* the engine executes the next node of a constructed definition: the entry
\* point first, then the first successor of the node executed last
ExecuteNext(n) ==
  /\ built = "constructed"
  /\ n \in Ids(definition)
  /\ n \notin Range(executed)
  /\ IF executed = <<>>
     THEN n \in EntryRoots(definition)
     ELSE LET last == DescIn(definition, executed[Len(executed)])
          IN last.next # <<>> /\ n = Head(last.next)
  /\ executed' = Append(executed, n)
  /\ UNCHANGED <<definition, built, configError>>
  /\ UNCHANGED <<cfgVars, ctxVars, nodeVars, engineVars, callerVars, toolVars, uiVars>>

ValNext ==
  \/ Construct
  \/ \E n \in Ids(definition) : ExecuteNext(n)

ValSpec == ValInit /\ [][ValNext]_vars

(***************************************************************************)
(* Tool groups: NodeToolRegistry, the node constructors that register      *)
(* them, NodeBase.executeTool and the executeMethod of the groups.         *)
(***************************************************************************)
NodeClasses == {"userInput", "worldBook", "preset"}

\* the tool group a node class registers in its constructor
ToolsOf(class) ==
  CASE class = "worldBook" -> "WorldBookNodeTools"
    [] class = "preset" -> "PresetNodeTools"
    [] OTHER -> "none"

getToolType(group) ==
  CASE group = "WorldBookNodeTools" -> "worldBook"
    [] group = "PresetNodeTools" -> "preset"
    [] OTHER -> "none"

\* the static methods a group defines
StaticMethods(group) ==
  CASE group = "WorldBookNodeTools" ->
         {"assemblePromptWithWorldBook", "getChatHistory"}
    [] group = "PresetNodeTools" -> {"buildPromptFramework"}
    [] OTHER -> {}

\* the method names a node may hand to executeTool
MethodNames ==
  {"assemblePromptWithWorldBook", "getChatHistory", "buildPromptFramework",
   "noSuchMethod"}

\* the awaited collaborators of a method that can raise: reading the
\* character record, reading the dialogue tree, assembling the prompt
FailPoints(methodName) ==
  CASE methodName = "assemblePromptWithWorldBook" ->
         {"record", "history", "assemble"}
    [] methodName = "getChatHistory" -> {"history"}
    [] OTHER -> {}

\* the exception of a failing collaborator
DataError == "ErrData"

\* NodeToolRegistry: a list of associations, at most one per tool type
register(reg, group) ==
  IF \E i \in DOMAIN reg : reg[i].type = getToolType(group)
  THEN [i \in DOMAIN reg |->
          IF reg[i].type = getToolType(group)
          THEN [type |-> getToolType(group), group |-> group]
          ELSE reg[i]]
  ELSE Append(reg, [type |-> getToolType(group), group |-> group])

get(reg, name) ==
  IF \E i \in DOMAIN reg : reg[i].type = name
  THEN reg[CHOOSE i \in DOMAIN reg : reg[i].type = name].group
  ELSE "none"

\* NodeTool.handleError: logs the error and raises it again
handleError(error, methodName) == [threw |-> TRUE, error |-> error]

\* the outcome of a call: whether it raised, the error or the value, and the
\* method names handleError was called with on the way
Raised(error, hs) ==
  [threw |-> TRUE, error |-> error, value |-> "none", handled |-> hs]

Returned(value, hs) ==
  [threw |-> FALSE, error |-> NoError, value |-> value, handled |-> hs]

\* a catch block whose only statement is the call of handleError: when
\* handleError raises, the method raises; otherwise the method goes on to
\* the statement after the catch block, or ends without a value
CatchWithHandleError(error, methodName, hs, otherwise) ==
  LET h == handleError(error, methodName)
  IN IF h.threw
     THEN Raised(h.error, Append(hs, methodName))
     ELSE Returned(otherwise, Append(hs, methodName))

\* WorldBookNodeTools.getChatHistory
getChatHistory(failsAt) ==
  IF failsAt = "history"
  THEN CatchWithHandleError(DataError, "getChatHistory", <<>>, "emptyList")
  ELSE Returned("history", <<>>)

\* WorldBookNodeTools.assemblePromptWithWorldBook
assemblePromptWithWorldBook(failsAt) ==
  IF failsAt = "record"
  THEN CatchWithHandleError(DataError, "assemblePromptWithWorldBook", <<>>,
                            "undefined")
  ELSE LET chatHistory == getChatHistory(failsAt)
       IN IF chatHistory.threw
          THEN CatchWithHandleError(chatHistory.error,
                 "assemblePromptWithWorldBook", chatHistory.handled, "undefined")
          ELSE IF failsAt = "assemble"
          THEN CatchWithHandleError(DataError, "assemblePromptWithWorldBook",
                                    chatHistory.handled, "undefined")
          ELSE Returned("prompt", chatHistory.handled)

\* method.apply(this, params)
ApplyMethod(methodName, failsAt) ==
  CASE methodName = "assemblePromptWithWorldBook" ->
         assemblePromptWithWorldBook(failsAt)
    [] methodName = "getChatHistory" -> getChatHistory(failsAt)
    [] OTHER -> Returned("prompt", <<>>)

\* the error of executeMethod for a name that is no function of the group
MethodNotFound(type, methodName) ==
  "Method " \o methodName \o " not found in " \o type \o "Tool"

\* variant: the name is not looked up before it is applied
executeMethodUnchecked(group, methodName, failsAt) ==
  IF methodName \notin StaticMethods(group)
  THEN CatchWithHandleError("TypeError", methodName, <<>>, "undefined")
         @@ [invoked |-> <<>>]
  ELSE LET r == ApplyMethod(methodName, failsAt)
       IN (IF r.threw
           THEN CatchWithHandleError(r.error, methodName, r.handled, "undefined")
           ELSE r) @@ [invoked |-> <<methodName>>]

\* variant: the catch block of executeMethod is empty
executeMethodSwallowing(group, methodName, failsAt) ==
  IF methodName \notin StaticMethods(group)
  THEN Raised(MethodNotFound(getToolType(group), methodName), <<>>)
         @@ [invoked |-> <<>>]
  ELSE LET r == ApplyMethod(methodName, failsAt)
       IN (IF r.threw THEN Returned("undefined", r.handled) ELSE r)
            @@ [invoked |-> <<methodName>>]

\* executeMethod of a tool group: the name is looked up, a name that is no
\* function raises, the method is applied and what it raises goes to
\* handleError
executeMethod(group, methodName, failsAt) ==
  IF methodName \notin StaticMethods(group)
  THEN Raised(MethodNotFound(getToolType(group), methodName), <<>>)
         @@ [invoked |-> <<>>]
  ELSE LET r == ApplyMethod(methodName, failsAt)
       IN (IF r.threw
           THEN CatchWithHandleError(r.error, methodName, r.handled, "undefined")
           ELSE r) @@ [invoked |-> <<methodName>>]

\* NodeBase.executeTool
executeTool(class, methodName, failsAt) ==
  IF toolClass[class] = "none"
  THEN Raised("No tool class available for node type: " \o class, <<>>)
         @@ [invoked |-> <<>>]
  ELSE executeMethod(toolClass[class], methodName, failsAt)

\* the resolved fields _call requires before it calls a tool, in the order
\* of its checks, with the error of each check: systemMessage and
\* characterId (WorldBookNode), characterId (PresetNode), userMessage and
\* characterId (ContextNode); in the reduced workflow "a" carries the
\* message and "c" the character id
RequiredInputs(class) ==
  CASE class = "worldBook" ->
         << [field |-> "a",
             error |-> "System message is required for WorldBookNode"],
            [field |-> "c",
             error |-> "Character ID is required for WorldBookNode"] >>
    [] class = "preset" ->
         << [field |-> "c",
             error |-> "Character ID is required for PresetNode"] >>
    [] class = "context" ->
         << [field |-> "a",
             error |-> "User message is required for ContextNode"],
            [field |-> "c",
             error |-> "Character ID is required for ContextNode"] >>
    [] OTHER -> << >>

\* variant: _call does not check its required fields
InputGuardMissing(class, inp) == NoError

\* the checks at the head of _call: the error of the first required field
\* that is missing or empty (!field), none when all are there
InputGuard(class, inp) ==
  LET req == RequiredInputs(class)
      failing == {i \in DOMAIN req : inp[req[i].field] = Undef}
  IN IF failing = {} THEN NoError
     ELSE req[CHOOSE i \in failing : \A j \in failing : i <= j].error

\* the nodes of the workflow whose class comes with a tool group
ToolNodes == {n \in Nodes : ToolsOf(Desc(n).typeName) # "none"}

ToolInit ==
  /\ CtorIdle
  /\ registry = <<>>
  /\ constructed = [c \in NodeClasses |-> 0]
  /\ toolClass = [c \in NodeClasses |-> "none"]
  /\ toolPc = "idle"
  /\ request = "none"
  /\ invoked = <<>>
  /\ handled = <<>>
  /\ toolRaised = NoError
  /\ cache \in {c \in Store : KeysOf(c) \subseteq WorkflowFields}
  /\ MainIdle
  /\ ValIdle
  /\ TtsIdle
  /\ PanelIdle

\* variant: the constructor does not register the tool group
ConstructNodeUnregistered(class) ==
  /\ constructed[class] < MaxConstruct
  /\ constructed' = [constructed EXCEPT ![class] = @ + 1]
  /\ toolClass' = [toolClass EXCEPT ![class] =
                     IF ToolsOf(class) # "none" THEN ToolsOf(class)
                     ELSE get(registry, class)]
  /\ UNCHANGED <<registry, toolPc, request, invoked, handled, toolRaised>>
  /\ UNCHANGED <<cfgVars, ctxVars, nodeVars, engineVars, callerVars, valVars, uiVars>>

\* a node is constructed: the constructor of a class with tools registers
\* the group, the NodeBase constructor looks the group up under the node
\* name (initializeTools), the constructor then binds the group itself
ConstructNode(class) ==
  /\ constructed[class] < MaxConstruct
  /\ LET reg == IF ToolsOf(class) # "none"
                THEN register(registry, ToolsOf(class)) ELSE registry
     IN /\ registry' = reg
        /\ toolClass' = [toolClass EXCEPT ![class] =
                           IF ToolsOf(class) # "none" THEN ToolsOf(class)
                           ELSE get(reg, class)]
  /\ constructed' = [constructed EXCEPT ![class] = @ + 1]
  /\ UNCHANGED <<toolPc, request, invoked, handled, toolRaised>>
  /\ UNCHANGED <<cfgVars, ctxVars, nodeVars, engineVars, callerVars, valVars, uiVars>>

\* execute is called on a constructed node
ToolNodeExecute(n) ==
  /\ n \in ToolNodes
  /\ constructed[Desc(n).typeName] > 0
  /\ ExecBegin(n)
  /\ UNCHANGED <<cfgVars, ctxVars, engineVars, callerVars, auxVars>>

\* _call finds a required field missing or empty: it raises before it calls
\* a tool and execute ends in its catch block
CallGuardFails(n) ==
  /\ n \in ToolNodes
  /\ pc[n] = "call"
  /\ toolPc = "idle"
  /\ InputGuard(Desc(n).typeName, resolved[n]) # NoError
  /\ LET error == InputGuard(Desc(n).typeName, resolved[n])
     IN /\ result' = [result EXCEPT ![n] = Catch(result[n], error)]
        /\ raised' = [raised EXCEPT ![n] = error]
  /\ pc' = [pc EXCEPT ![n] = AfterCatch("call")]
  /\ steps' = [steps EXCEPT ![n] = Append(@, "call")]
  /\ UNCHANGED <<resolved, callOut, wlog, execCount>>
  /\ UNCHANGED toolVars
  /\ UNCHANGED <<cfgVars, ctxVars, engineVars, callerVars, valVars, uiVars>>

\* _call hands a method name to executeTool: a name that is no function of
\* the group raises at once and ends execute in its catch block; otherwise
\* the method is applied and _call waits for it
CallExecuteTool(n, methodName) ==
  /\ n \in ToolNodes
  /\ pc[n] = "call"
  /\ toolPc = "idle"
  /\ InputGuard(Desc(n).typeName, resolved[n]) = NoError
  /\ request' = methodName
  /\ LET r == executeTool(Desc(n).typeName, methodName, "none")
     IN /\ invoked' = r.invoked
        /\ handled' = r.handled
        /\ IF r.threw
           THEN /\ toolPc' = "failed"
                /\ pc' = [pc EXCEPT ![n] = AfterCatch("call")]
                /\ result' = [result EXCEPT ![n] = Catch(result[n], r.error)]
                /\ raised' = [raised EXCEPT ![n] = r.error]
                /\ steps' = [steps EXCEPT ![n] = Append(@, "call")]
           ELSE /\ toolPc' = "method"
                /\ UNCHANGED <<pc, result, raised, steps>>
  /\ UNCHANGED <<resolved, callOut, wlog, execCount>>
  /\ UNCHANGED <<registry, constructed, toolClass, toolRaised>>
  /\ UNCHANGED <<cfgVars, ctxVars, engineVars, callerVars, valVars, uiVars>>

\* the applied method returns: executeMethod and executeTool return its
\* value and _call returns the output of the node
ToolReturns(n) ==
  /\ n \in ToolNodes
  /\ pc[n] = "call"
  /\ toolPc = "method"
  /\ toolPc' = "returned"
  /\ \E o \in CallOutputs : callOut' = [callOut EXCEPT ![n] = o]
  /\ pc' = [pc EXCEPT ![n] = NextStep("call")]
  /\ steps' = [steps EXCEPT ![n] = Append(@, "call")]
  /\ UNCHANGED <<result, resolved, raised, wlog, execCount>>
  /\ UNCHANGED <<registry, constructed, toolClass, request, invoked, handled,
                 toolRaised>>
  /\ UNCHANGED <<cfgVars, ctxVars, engineVars, callerVars, valVars, uiVars>>

\* a collaborator of the applied method raises: when executeMethod raises in
\* turn, so do executeTool and _call, and execute ends in its catch block;
\* when executeMethod returns without a value, _call raises a TypeError on
\* reading a property of it
ToolThrows(n, failsAt) ==
  /\ n \in ToolNodes
  /\ pc[n] = "call"
  /\ toolPc = "method"
  /\ failsAt \in FailPoints(request)
  /\ toolRaised' = DataError
  /\ LET r == executeTool(Desc(n).typeName, request, failsAt)
         error == IF r.threw THEN r.error ELSE "TypeError"
     IN /\ handled' = r.handled
        /\ toolPc' = IF r.threw THEN "failed" ELSE "returned"
        /\ result' = [result EXCEPT ![n] = Catch(result[n], error)]
        /\ raised' = [raised EXCEPT ![n] = error]
  /\ pc' = [pc EXCEPT ![n] = AfterCatch("call")]
  /\ steps' = [steps EXCEPT ![n] = Append(@, "call")]
  /\ UNCHANGED <<resolved, callOut, wlog, execCount>>
  /\ UNCHANGED <<registry, constructed, toolClass, request, invoked>>
  /\ UNCHANGED <<cfgVars, ctxVars, engineVars, callerVars, valVars, uiVars>>

ToolNext ==
  \/ \E class \in NodeClasses : ConstructNode(class)
  \/ \E n \in Nodes : ToolNodeExecute(n)
  \/ \E n \in ToolNodes : StepBefore(n)
  \/ \E n \in ToolNodes : CallGuardFails(n)
  \/ \E n \in Nodes : \E methodName \in MethodNames : CallExecuteTool(n, methodName)
  \/ \E n \in Nodes : ToolReturns(n)
  \/ \E n \in Nodes : \E failsAt \in {"record", "history", "assemble"} :
       ToolThrows(n, failsAt)
  \/ \E n \in ToolNodes : StepPublish(n)
  \/ \E n \in ToolNodes : StepAfter(n)

ToolSpec == ToolInit /\ [][ToolNext]_vars

(***************************************************************************)
(***************************************************************************)
(* TTSService: task polling and the audio cache                            *)
(***************************************************************************)
\* number of calls made on one service in a run
MaxCalls == 3

\* largest maxRetries a call polls with; generateSpeech passes its own limit
\* (900 in the source), which the model takes to be this bound
MaxRetries == 2

Messages == {"m1", "m2"}

Urls == {"u1", "u2"}

\* no audio URL: undefined, or an empty fileUrl
NoUrl == "none"

\* at most two calls are in flight at a time
CallSlots == {1, 2}

\* the bodies the task-status endpoint answers with: code 0 with output
\* files (the first of which may lack a fileUrl) or without, code 805 for a
\* failed task, any other code while the task is queued or running
Responses ==
  {[code |-> 0, data |-> <<u>>] : u \in Urls \cup {NoUrl}}
    \cup {[code |-> c, data |-> <<>>] : c \in {0, 804, 805}}

queryTaskResult(response) ==
  IF response.code = 0 /\ Len(response.data) > 0
  THEN [status |-> "completed", audioUrl |-> response.data[1]]
  ELSE IF response.code = 805
       THEN [status |-> "failed", audioUrl |-> NoUrl]
       ELSE [status |-> "processing", audioUrl |-> NoUrl]

NoCall ==
  [pc |-> "idle", kind |-> "none", msg |-> "none", maxRetries |-> 0, i |-> 0,
   queries |-> 0, created |-> FALSE, last |-> "none", url |-> NoUrl,
   error |-> NoError, prior |-> {}]

Settled(c) == call[c].pc \in {"idle", "returned", "failed"}

Throw(rec, err) == [rec EXCEPT !.pc = "failed", !.error = err]

\* variant: the loop runs while i <= maxRetries
LoopHeadInclusive(rec) ==
  IF rec.i <= rec.maxRetries
  THEN [rec EXCEPT !.pc = "querying", !.queries = @ + 1]
  ELSE Throw(rec, "TTS task timeout")

\* head of the polling loop: the next status query is issued while
\* i < maxRetries, otherwise the call fails with the timeout error
LoopHead(rec) ==
  IF rec.i < rec.maxRetries
  THEN [rec EXCEPT !.pc = "querying", !.queries = @ + 1]
  ELSE Throw(rec, "TTS task timeout")

nonTtsVars ==
  <<cfgVars, ctxVars, nodeVars, engineVars, callerVars, valVars, toolVars,
    panelVars, ctorVars, hookVars, histVars>>

TtsInit ==
  /\ CtorIdle
  /\ audioCache = [m \in Messages |-> NoUrl]
  /\ call = [c \in CallSlots |-> NoCall]
  /\ invocations = 0
  /\ generated = [m \in Messages |-> {}]
  /\ cache = EmptyStore
  /\ MainIdle
  /\ ValIdle
  /\ ToolIdle
  /\ PanelIdle

\* generateSpeech up to its first await: a cached URL is returned at once;
\* otherwise the speech content is extracted, the call fails when there is
\* none, and the request that creates the TTS task is sent
GenerateSpeech(c, messageId, hasSpeech) ==
  /\ Settled(c)
  /\ invocations < MaxCalls
  /\ invocations' = invocations + 1
  /\ LET cached == audioCache[messageId]
         rec == [NoCall EXCEPT !.kind = "generate", !.msg = messageId,
                               !.maxRetries = MaxRetries,
                               !.prior = generated[messageId]]
     IN call' = [call EXCEPT ![c] =
          IF cached # NoUrl
          THEN [rec EXCEPT !.pc = "returned", !.url = cached]
          ELSE IF ~hasSpeech
               THEN Throw(rec, "No highlighted speech content found")
               ELSE [rec EXCEPT !.pc = "creating"]]
  /\ UNCHANGED <<audioCache, generated>>
  /\ UNCHANGED nonTtsVars

\* createTTSTask settles: a non-zero code fails the call; otherwise the task
\* exists and waitForTaskCompletion starts at the head of its loop
CreateResponds(c, ok) ==
  /\ call[c].pc = "creating"
  /\ call' = [call EXCEPT ![c] =
       IF ok THEN LoopHead([@ EXCEPT !.created = TRUE])
       ELSE Throw(@, "TTS task creation failed")]
  /\ UNCHANGED <<audioCache, invocations, generated>>
  /\ UNCHANGED nonTtsVars

\* waitForTaskCompletion called on its own for an existing task
WaitForTaskCompletion(c, maxRetries) ==
  /\ Settled(c)
  /\ invocations < MaxCalls
  /\ invocations' = invocations + 1
  /\ call' = [call EXCEPT ![c] =
       LoopHead([NoCall EXCEPT !.kind = "wait", !.maxRetries = maxRetries])]
  /\ UNCHANGED <<audioCache, generated>>
  /\ UNCHANGED nonTtsVars

\* variant: a failed status query also empties the audio cache
QueryRespondsClearingOnFailure(c, response) ==
  /\ call[c].pc = "querying"
  /\ LET result1 == queryTaskResult(response)
         rec == [call[c] EXCEPT !.last = result1.status]
     IN IF result1.status = "completed" /\ result1.audioUrl # NoUrl
        THEN /\ call' = [call EXCEPT ![c] =
                  [rec EXCEPT !.pc = "returned", !.url = result1.audioUrl]]
             /\ IF rec.kind = "generate"
                THEN /\ audioCache' =
                          [audioCache EXCEPT ![rec.msg] = result1.audioUrl]
                     /\ generated' =
                          [generated EXCEPT ![rec.msg] = @ \cup {result1.audioUrl}]
                ELSE UNCHANGED <<audioCache, generated>>
        ELSE /\ call' = [call EXCEPT ![c] =
                  IF result1.status = "failed"
                  THEN Throw(rec, "TTS task failed")
                  ELSE [rec EXCEPT !.pc = "waiting"]]
             /\ IF result1.status = "failed"
                THEN /\ audioCache' = [m \in Messages |-> NoUrl]
                     /\ UNCHANGED generated
                ELSE UNCHANGED <<audioCache, generated>>
  /\ UNCHANGED invocations
  /\ UNCHANGED nonTtsVars

\* a status query is answered: a completed result with a URL is returned
\* (generateSpeech then caches it and returns it), a failed result fails the
\* call, anything else makes the call wait for the interval
QueryResponds(c, response) ==
  /\ call[c].pc = "querying"
  /\ LET result1 == queryTaskResult(response)
         rec == [call[c] EXCEPT !.last = result1.status]
     IN IF result1.status = "completed" /\ result1.audioUrl # NoUrl
        THEN /\ call' = [call EXCEPT ![c] =
                  [rec EXCEPT !.pc = "returned", !.url = result1.audioUrl]]
             /\ IF rec.kind = "generate"
                THEN /\ audioCache' =
                          [audioCache EXCEPT ![rec.msg] = result1.audioUrl]
                     /\ generated' =
                          [generated EXCEPT ![rec.msg] = @ \cup {result1.audioUrl}]
                ELSE UNCHANGED <<audioCache, generated>>
        ELSE /\ call' = [call EXCEPT ![c] =
                  IF result1.status = "failed"
                  THEN Throw(rec, "TTS task failed")
                  ELSE [rec EXCEPT !.pc = "waiting"]]
             /\ UNCHANGED <<audioCache, generated>>
  /\ UNCHANGED invocations
  /\ UNCHANGED nonTtsVars

\* the interval has passed: i++ and back to the head of the loop
TimerFires(c) ==
  /\ call[c].pc = "waiting"
  /\ call' = [call EXCEPT ![c] = LoopHead([@ EXCEPT !.i = @ + 1])]
  /\ UNCHANGED <<audioCache, invocations, generated>>
  /\ UNCHANGED nonTtsVars

clearCache ==
  /\ audioCache' = [m \in Messages |-> NoUrl]
  /\ generated' = [m \in Messages |-> {}]
  /\ UNCHANGED <<call, invocations>>
  /\ UNCHANGED nonTtsVars

clearMessageCache(messageId) ==
  /\ audioCache' = [audioCache EXCEPT ![messageId] = NoUrl]
  /\ generated' = [generated EXCEPT ![messageId] = {}]
  /\ UNCHANGED <<call, invocations>>
  /\ UNCHANGED nonTtsVars

TtsNext ==
  \/ \E c \in CallSlots, m \in Messages, hasSpeech \in BOOLEAN :
       GenerateSpeech(c, m, hasSpeech)
  \/ \E c \in CallSlots, ok \in BOOLEAN : CreateResponds(c, ok)
  \/ \E c \in CallSlots, maxRetries \in 0..MaxRetries :
       WaitForTaskCompletion(c, maxRetries)
  \/ \E c \in CallSlots, response \in Responses : QueryResponds(c, response)
  \/ \E c \in CallSlots : TimerFires(c)
  \/ clearCache
  \/ \E m \in Messages : clearMessageCache(m)

TtsSpec == TtsInit /\ [][TtsNext]_vars

\* waitForTaskCompletion on its own: calls that poll existing tasks; every
\* status query is answered and every timer fires
PollNext ==
  \/ \E c \in CallSlots, maxRetries \in 0..MaxRetries :
       WaitForTaskCompletion(c, maxRetries)
  \/ \E c \in CallSlots, response \in Responses : QueryResponds(c, response)
  \/ \E c \in CallSlots : TimerFires(c)

PollSpec ==
  /\ TtsInit
  /\ [][PollNext]_vars
  /\ \A c \in CallSlots :
       /\ WF_vars(\E response \in Responses : QueryResponds(c, response))
       /\ WF_vars(TimerFires(c))


(***************************************************************************)
(* TTSSettingsPanel: the settings and their items in localStorage          *)
(***************************************************************************)
DefaultWorkflowId == "1983711725981769729"

OldWorkflowId == "1983506334995914754"

ApiKeys == {"", "key"}

WorkflowIds == {"", OldWorkflowId, DefaultWorkflowId, "custom"}

\* what localStorage.getItem returns for an item that was never set
Null == "(null)"

\* String(b) for a boolean b
BoolString(b) == IF b THEN "true" ELSE "false"

\* the useState initial values
DefaultSettings ==
  [enabled |-> FALSE, apiKey |-> "", autoPlay |-> TRUE,
   workflowId |-> DefaultWorkflowId]

EmptyStorage ==
  [tts_enabled |-> Null, tts_api_key |-> Null, tts_auto_play |-> Null,
   tts_workflow_id |-> Null]

\* items written by a version that shipped the old workflow id
LegacyStorage ==
  [tts_enabled |-> "true", tts_api_key |-> "key", tts_auto_play |-> "true",
   tts_workflow_id |-> OldWorkflowId]

\* the four setItem calls of handleSave
StoredItems(s) ==
  [tts_enabled |-> BoolString(s.enabled), tts_api_key |-> s.apiKey,
   tts_auto_play |-> BoolString(s.autoPlay), tts_workflow_id |-> s.workflowId]

\* whether a string is truthy in a JavaScript condition
Truthy(item) == item # Null /\ item # ""

\* variant: any stored tts_enabled item switches TTS on
LoadedEnabledTruthy(storage) ==
  [enabled |-> Truthy(storage.tts_enabled),
   apiKey |-> IF Truthy(storage.tts_api_key) THEN storage.tts_api_key
              ELSE DefaultSettings.apiKey,
   autoPlay |-> IF storage.tts_auto_play = "false" THEN FALSE
                ELSE DefaultSettings.autoPlay,
   workflowId |-> IF storage.tts_workflow_id = OldWorkflowId
                  THEN DefaultWorkflowId
                  ELSE IF Truthy(storage.tts_workflow_id)
                       THEN storage.tts_workflow_id
                       ELSE DefaultSettings.workflowId]

\* the state the load effect leaves in a freshly mounted panel
LoadedSettings(storage) ==
  [enabled |-> IF storage.tts_enabled = "true" THEN TRUE
               ELSE DefaultSettings.enabled,
   apiKey |-> IF Truthy(storage.tts_api_key) THEN storage.tts_api_key
              ELSE DefaultSettings.apiKey,
   autoPlay |-> IF storage.tts_auto_play = "false" THEN FALSE
                ELSE DefaultSettings.autoPlay,
   workflowId |-> IF storage.tts_workflow_id = OldWorkflowId
                  THEN DefaultWorkflowId
                  ELSE IF Truthy(storage.tts_workflow_id)
                       THEN storage.tts_workflow_id
                       ELSE DefaultSettings.workflowId]

\* the load effect rewrites the item of the old workflow id
MigratedStorage(storage) ==
  IF storage.tts_workflow_id = OldWorkflowId
  THEN [storage EXCEPT !.tts_workflow_id = DefaultWorkflowId]
  ELSE storage

nonPanelVars ==
  <<cfgVars, ctxVars, nodeVars, engineVars, callerVars, valVars, toolVars,
    ttsVars, ctorVars, hookVars, histVars>>

\* the panel is mounted over a fresh or a legacy localStorage
PanelInit ==
  /\ CtorIdle
  /\ \E storage \in {EmptyStorage, LegacyStorage} :
       /\ panel = LoadedSettings(storage)
       /\ localStorage = MigratedStorage(storage)
  /\ saved = <<>>
  /\ cache = EmptyStore
  /\ MainIdle
  /\ ValIdle
  /\ ToolIdle
  /\ TtsIdle

SetEnabled ==
  /\ panel' = [panel EXCEPT !.enabled = ~@]
  /\ UNCHANGED <<localStorage, saved>>
  /\ UNCHANGED nonPanelVars

SetApiKey(value) ==
  /\ panel' = [panel EXCEPT !.apiKey = value]
  /\ UNCHANGED <<localStorage, saved>>
  /\ UNCHANGED nonPanelVars

SetAutoPlay ==
  /\ panel' = [panel EXCEPT !.autoPlay = ~@]
  /\ UNCHANGED <<localStorage, saved>>
  /\ UNCHANGED nonPanelVars

SetWorkflowId(value) ==
  /\ panel' = [panel EXCEPT !.workflowId = value]
  /\ UNCHANGED <<localStorage, saved>>
  /\ UNCHANGED nonPanelVars

\* the save button is disabled while TTS is enabled without an API key
handleSave ==
  /\ ~(panel.apiKey = "" /\ panel.enabled)
  /\ localStorage' = StoredItems(panel)
  /\ saved' = <<panel>>
  /\ UNCHANGED panel
  /\ UNCHANGED nonPanelVars

\* the panel is opened again: a new component instance runs the load effect
Mount ==
  /\ panel' = LoadedSettings(localStorage)
  /\ localStorage' = MigratedStorage(localStorage)
  /\ UNCHANGED saved
  /\ UNCHANGED nonPanelVars

PanelNext ==
  \/ SetEnabled
  \/ \E value \in ApiKeys : SetApiKey(value)
  \/ SetAutoPlay
  \/ \E value \in WorkflowIds : SetWorkflowId(value)
  \/ handleSave
  \/ Mount

PanelSpec == PanelInit /\ [][PanelNext]_vars

(* Properties                                                              *)
(***************************************************************************)
IsPrefix(s, t) == Len(s) <= Len(t) /\ s = SubSeq(t, 1, Len(s))

\* node n takes the given step of execute in this transition
TakesStep(n, step) ==
  /\ Len(steps'[n]) = Len(steps[n]) + 1
  /\ steps'[n][Len(steps'[n])] = step

\* the declared output fields that the _call output of n carries
PublishedKeys(n) == {k \in Range(Desc(n).outputFields) : callOut[n][k] # Undef}

\* an EXIT node ran all five steps without raising and reported COMPLETED
ExitCompleted ==
  \E x \in Nodes :
    /\ Desc(x).category = EXIT
    /\ result[x].status = "COMPLETED"
    /\ raised[x] = NoError
    /\ steps[x] = StepOrder

\* C1: execute never throws: whenever a step of execute raised an exception,
\* execute has returned a result whose status is FAILED and whose error is
\* that exception; every returned result is COMPLETED or FAILED.
C1_ExecuteNeverThrows ==
  \A n \in Nodes :
    /\ raised[n] # NoError =>
         /\ pc[n] = "done"
         /\ result[n].status = "FAILED"
         /\ result[n].error = raised[n]
    /\ pc[n] = "done" => result[n].status \in {"COMPLETED", "FAILED"}

C1_Witness ==
  /\ raised["after1"] = "ErrBefore" /\ result["after1"].status = "FAILED"
  /\ raised["after2"] = "ErrAfter" /\ result["after2"].status = "FAILED"
  /\ raised["mid"] = NoError /\ result["mid"].status = "COMPLETED"

\* C2: fail-fast: once a main-chain node has returned a FAILED result, no
\* later main-chain node is ever executed, the node is executed only once, no
\* output mapping is read or returned, aborting is the engine's next step and
\* after it the caller holds the exception the node raised.
C2_FailFast ==
  \A n \in MainNodes :
    (pc[n] = "done" /\ result[n].status = "FAILED") =>
      /\ \A m \in Downstream(n) : pc[m] = "idle" /\ execCount[m] = 0
      /\ execCount[n] = 1
      /\ mainState # "MAIN_CHAIN_COMPLETE"
      /\ callerState # "returned"
      /\ callerResult = EmptyStore
      /\ current = n => ENABLED EngineAbort(n)
      /\ current # n => callerState = "raised" /\ callerError = raised[n]

C2_Witness ==
  /\ result["mid"].status = "FAILED"
  /\ callerState = "raised"
  /\ callerError = "ErrCall"
  /\ pc["exit"] = "idle"

C4_AwaitFlag ==
  executeAfterNodes =>
    /\ (awaitAfterNodes /\ callerState = "returned") =>
         \A n \in AfterNodes : pc[n] = "done"
    /\ (~awaitAfterNodes /\ mainState = "MAIN_CHAIN_COMPLETE"
          /\ callerState = "waiting") => ENABLED Deliver

C4_Witness ==
  /\ executeAfterNodes /\ ~awaitAfterNodes
  /\ callerState = "returned"
  /\ pc["after1"] = "call"

\* C5: a FAILED AFTER node never gives the caller an error: the caller holds
\* or can still obtain the main-chain output; no AFTER node is executed twice;
\* a failed AFTER node does not stop another AFTER node from being started;
\* the background branch only ends once every AFTER node was executed, and it
\* ends as AFTER_FAILED when an AFTER node raised.
C5_AfterFailureIsolated ==
  /\ \A n \in AfterNodes :
       result[n].status = "FAILED" =>
         /\ callerState # "raised"
         /\ callerError = NoError
         /\ callerState = "returned" => callerResult = mainResult
         /\ (callerState = "waiting" /\ AfterSettled) => ENABLED Deliver
         /\ execCount[n] = 1
         /\ \A m \in AfterNodes :
              (pc[m] = "idle" /\ afterState = "AFTER_PENDING") =>
                 ENABLED AfterExecute(m)
  /\ afterState \in {"AFTER_COMPLETE", "AFTER_FAILED"} =>
       /\ \A m \in AfterNodes : execCount[m] = 1 /\ pc[m] = "done"
       /\ afterState = "AFTER_FAILED" <=>
            \E m \in AfterNodes : raised[m] # NoError

C5_Witness ==
  /\ awaitAfterNodes
  /\ result["after1"].status = "FAILED"
  /\ result["after2"].status = "COMPLETED"
  /\ afterState = "AFTER_FAILED"
  /\ callerState = "returned"
  /\ callerResult = mainResult

\* C6: a publishOutput of an EXIT node writes the published fields to the
\* output store and leaves the cache unchanged; a publishOutput of a node of
\* any other category writes them to the cache and leaves the output store
\* unchanged.
C6_CategoryRouting ==
  [][\A n \in Nodes :
       TakesStep(n, "publish") =>
         IF NodeCategory(n) = EXIT
         THEN /\ cache' = cache
              /\ \A k \in PublishedKeys(n) : output'[k] = callOut[n][k]
              /\ wlog'[n] = {<<"output", k>> : k \in PublishedKeys(n)}
         ELSE /\ output' = output
              /\ \A k \in PublishedKeys(n) : cache'[k] = callOut[n][k]
              /\ wlog'[n] = {<<"cache", k>> : k \in PublishedKeys(n)}]_vars

C6_Witness ==
  /\ pc["exit"] = "after"
  /\ wlog["exit"] = {<<"output", "a">>, <<"output", "b">>}
  /\ wlog["mid"] = {<<"cache", "b">>}
  /\ output["a"] # Undef /\ output["b"] # Undef

\* C7: the keys a node execution writes are exactly the declared output
\* fields present in the _call output: only publishOutput changes the cache
\* or the output store, it writes exactly those keys, and every other key of
\* both stores keeps its value.
C7_WritesExactlyDeclaredPresent ==
  [][/\ (cache' # cache \/ output' # output) =>
          \E n \in Nodes : TakesStep(n, "publish")
     /\ \A n \in Nodes :
          TakesStep(n, "publish") =>
            /\ {w[2] : w \in wlog'[n]} = PublishedKeys(n)
            /\ \A k \in Keys \ PublishedKeys(n) :
                 cache'[k] = cache[k] /\ output'[k] = output[k]
     /\ \A n \in Nodes :
          ~TakesStep(n, "publish") => wlog'[n] = wlog[n]]_vars

C7_Witness ==
  /\ pc["mid"] = "after"
  /\ callOut["mid"]["a"] # Undef
  /\ callOut["mid"]["b"] = Undef
  /\ cache["b"] # Undef
  /\ wlog["mid"] = {}

\* C8: a declared name that is missing is left out of the resolved input,
\* the names that are present are still resolved, resolveInput never raises
\* and _call is entered with the partial map.
C8_MissingInputsNonFatal ==
  /\ [](\A n \in Nodes :
          /\ raised[n] # "ErrResolve"
          /\ pc[n] = "call" => result[n].input = resolved[n])
  /\ [][\A n \in Nodes :
          TakesStep(n, "resolve") =>
            /\ pc'[n] = "before"
            /\ \A f \in Range(Desc(n).initParams) :
                 resolved'[n][f] = input[f]
            /\ \A f \in Range(Desc(n).inputFields) :
                 LET dest == IF f \in DOMAIN Desc(n).inputMapping
                             THEN Desc(n).inputMapping[f] ELSE f
                 IN resolved'[n][dest] = cache[f]]_vars

C8_Witness ==
  /\ pc["entry"] = "call"
  /\ input["a"] = Undef
  /\ input["b"] # Undef
  /\ resolved["entry"]["a"] = Undef
  /\ resolved["entry"]["b"] = input["b"]
  /\ result["entry"].input = resolved["entry"]

\* C9: resolveInput puts the cache value of every input field present in the
\* cache under the mapped key when a mapping is declared (and then not under
\* the field's own name), and under the field's own name otherwise.
C9_MappingCorrectness ==
  [][\A n \in Nodes :
       TakesStep(n, "resolve") =>
         \A f \in Range(Desc(n).inputFields) :
           cache[f] # Undef =>
             IF f \in DOMAIN Desc(n).inputMapping
             THEN /\ resolved'[n][Desc(n).inputMapping[f]] = cache[f]
                  /\ resolved'[n][f] = Undef
             ELSE resolved'[n][f] = cache[f]]_vars

C9_Witness ==
  /\ pc["mid"] = "before"
  /\ cache["a"] # Undef /\ cache["b"] # Undef
  /\ resolved["mid"]["c"] = cache["b"]
  /\ resolved["mid"]["b"] = Undef
  /\ resolved["mid"]["a"] = cache["a"]

\* C10: the steps of one execute run in the order resolveInput,
\* beforeExecute, _call, publishOutput, afterExecute; after a step raised no
\* later step runs, and nothing is published unless _call has returned.
C10_StepOrder ==
  \A n \in Nodes :
    /\ IsPrefix(steps[n], StepOrder)
    /\ raised[n] # NoError =>
         /\ steps[n] # <<>>
         /\ raised[n] = ErrOf(steps[n][Len(steps[n])])
    /\ wlog[n] # {} => IsPrefix(<<"resolve", "before", "call", "publish">>, steps[n])
    /\ raised[n] \in {"ErrResolve", "ErrBefore", "ErrCall"} => wlog[n] = {}

C10_Witness ==
  /\ steps["after2"] = StepOrder /\ result["after2"].status = "COMPLETED"
  /\ steps["after1"] = <<"resolve", "before", "call">>
  /\ raised["after1"] = "ErrCall"
  /\ wlog["after1"] = {}
  /\ wlog["exit"] # {}

\* C11: every execute creates one result with status RUNNING; the status
\* changes exactly once, from RUNNING to COMPLETED or FAILED, at the moment
\* execute returns; while execute runs the result is RUNNING without endTime,
\* output or error; the returned result is never RUNNING, has its endTime
\* set, carries an output snapshot exactly when COMPLETED and an error
\* exactly when FAILED.
C11_ResultLifecycle ==
  /\ [](\A n \in Nodes :
          /\ pc[n] = "idle" => result[n] = NoResult
          /\ pc[n] \in {"before", "call", "publish", "after"} =>
               /\ result[n].status = "RUNNING"
               /\ ~result[n].ended
               /\ ~result[n].hasOutput
               /\ result[n].error = NoError
          /\ pc[n] = "done" =>
               /\ result[n].status \in {"COMPLETED", "FAILED"}
               /\ result[n].ended
               /\ result[n].hasOutput <=> result[n].status = "COMPLETED"
               /\ result[n].error # NoError <=> result[n].status = "FAILED")
  /\ [][\A n \in Nodes :
          /\ execCount'[n] # execCount[n] => result'[n] = NewResult
          /\ result'[n].status # result[n].status =>
               \/ /\ result[n].status = "NONE"
                  /\ result'[n].status = "RUNNING"
                  /\ execCount'[n] = execCount[n] + 1
               \/ /\ result[n].status = "RUNNING"
                  /\ result'[n].status \in {"COMPLETED", "FAILED"}
                  /\ pc'[n] = "done"]_vars

C11_Witness ==
  /\ pc["after1"] = "done" /\ pc["after2"] = "done"
  /\ result["after1"].status = "COMPLETED" /\ result["after1"].hasOutput
  /\ result["after1"].error = NoError /\ result["after1"].ended
  /\ result["after2"].status = "FAILED" /\ ~result["after2"].hasOutput
  /\ result["after2"].error = "ErrBefore" /\ result["after2"].ended
  /\ afterState = "AFTER_PENDING"

C13_DefaultCall ==
  \A n \in Nodes :
    "call" \in Range(steps[n]) =>
      LET declared == Range(Desc(n).outputFields)
      IN IF declared = {}
         THEN callOut[n] = resolved[n]
         ELSE \A k \in Keys :
                callOut[n][k] = IF k \in declared THEN resolved[n][k] ELSE Undef

C13_Witness ==
  /\ current = "after1"
  /\ "call" \in Range(steps["after1"])
  /\ resolved["after1"]["b"] # Undef /\ resolved["after1"]["c"] # Undef
  /\ callOut["after1"]["b"] = resolved["after1"]["b"]
  /\ callOut["after1"]["c"] = Undef

\* node n is inside execute: entered and not yet returned
Executing(n) == pc[n] \notin {"idle", "done"}

\* C14: at most one main-chain node is inside execute at any time, and it is
\* the node the engine is at; a main-chain node has been entered only when
\* every main-chain node before it has returned from execute, so no step of
\* it reads or writes the context while another main-chain node is running.
C14_MainChainExclusive ==
  /\ \A n, m \in MainNodes : Executing(n) /\ Executing(m) => n = m
  /\ \A n \in MainNodes :
       Executing(n) => current = n /\ mainState = "RUNNING_MAIN_CHAIN"
  /\ \A n \in MainNodes : \A m \in Downstream(n) :
       execCount[m] > 0 => pc[n] = "done"

C14_Witness ==
  /\ pc["entry"] = "done"
  /\ pc["mid"] = "publish"
  /\ pc["exit"] = "idle"
  /\ current = "mid"

\* the main-chain nodes in the order the workflow declares them
MainOrder ==
  LET ids == [i \in DOMAIN Workflow |-> Workflow[i].id]
      IsMain(n) == Desc(n).category # AFTER
  IN SelectSeq(ids, IsMain)

\* C15: the executed main-chain nodes are the first k nodes of the declared
\* sequence, starting at the ENTRY node and each linked to the next by its
\* successors; all but the last of them have completed, every node is
\* executed at most once, and the main chain is complete only when the last
\* executed node is the EXIT node and it completed.
C15_MainChainOrder ==
  /\ \A n \in Nodes : execCount[n] <= 1
  /\ \E k \in 0..Len(MainOrder) :
       /\ {n \in MainNodes : execCount[n] > 0} = {MainOrder[i] : i \in 1..k}
       /\ k > 0 => Desc(MainOrder[1]).category = ENTRY
       /\ \A i \in 1..(k - 1) :
            /\ pc[MainOrder[i]] = "done"
            /\ result[MainOrder[i]].status = "COMPLETED"
            /\ Desc(MainOrder[i]).next = <<MainOrder[i + 1]>>
       /\ current \in MainNodes =>
            current = MainOrder[IF pc[current] = "idle" THEN k + 1 ELSE k]
       /\ mainState = "MAIN_CHAIN_COMPLETE" =>
            /\ k = Len(MainOrder)
            /\ Desc(MainOrder[k]).category = EXIT
            /\ result[MainOrder[k]].status = "COMPLETED"

C15_Witness ==
  /\ mainState = "MAIN_CHAIN_COMPLETE"
  /\ execCount["entry"] = 1 /\ execCount["mid"] = 1 /\ execCount["exit"] = 1
  /\ steps["mid"] = StepOrder
  /\ callerState = "waiting"
  /\ afterState = "NONE"

\* every input field of every node is an initParam of ENTRY or an output
\* field or initParam of some node upstream of the node
Producible(D) ==
  \A n \in Ids(D) : \A f \in Range(DescIn(D, n).inputFields) :
    \/ \E e \in Ids(D) :
         /\ DescIn(D, e).category = ENTRY
         /\ f \in Range(DescIn(D, e).initParams)
    \/ \E p \in Ancestors(D, n) :
         f \in Range(DescIn(D, p).outputFields)
                 \cup Range(DescIn(D, p).initParams)

\* D is one chain in declaration order: ENTRY, MIDDLE nodes, EXIT, AFTER nodes
IsChain(D) ==
  /\ \A i \in DOMAIN D :
       D[i].next = IF i < Len(D) THEN <<D[i + 1].id>> ELSE <<>>
  /\ D[1].category = ENTRY
  /\ \E x \in 2..Len(D) :
       /\ D[x].category = EXIT
       /\ \A i \in 2..(x - 1) : D[i].category = MIDDLE
       /\ \A i \in (x + 1)..Len(D) : D[i].category = AFTER

C17_ValidationGate ==
  /\ executed # <<>> =>
       /\ built = "constructed"
       /\ Rule1(definition) /\ Rule2(definition) /\ Rule3(definition)
       /\ Rule4(definition) /\ Rule5(definition)
  /\ (built # "pending" /\ ~validate(definition)) =>
       /\ built = "rejected"
       /\ configError = "ConfigurationError"
       /\ executed = <<>>
       /\ \A n \in Ids(definition) : ~ENABLED ExecuteNext(n)

C17_Witness ==
  /\ built = "constructed"
  /\ definition # ReferenceDefinition
  /\ executed = <<"e", "m", "x", "f">>

\* C18: when the method name handed to executeTool is no function of the
\* tool group, no tool method is applied and handleError is not called; the
\* call fails with the error "Method <name> not found in <type>Tool", which
\* names this tool type and this method and no other, and the execute of
\* the calling node has returned FAILED with that error, nothing published.
C18_MethodNotFound ==
  \A n \in ToolNodes :
    LET class == Desc(n).typeName
    IN (request # "none" /\ request \notin StaticMethods(ToolsOf(class))) =>
         /\ invoked = <<>>
         /\ handled = <<>>
         /\ toolPc = "failed"
         /\ pc[n] = "done"
         /\ result[n].status = "FAILED"
         /\ result[n].error =
              "Method " \o request \o " not found in " \o class \o "Tool"
         /\ \A t \in NodeClasses : \A m \in MethodNames :
              result[n].error = "Method " \o m \o " not found in " \o t \o "Tool"
                => t = class /\ m = request
         /\ wlog[n] = {}

C18_Witness ==
  /\ request = "buildPromptFramework"
  /\ constructed["preset"] > 0
  /\ result["mid"].status = "FAILED"
  /\ result["mid"].error = "Method buildPromptFramework not found in worldBookTool"
  /\ steps["mid"] = <<"resolve", "before", "call">>

\* C19: whenever a collaborator raised inside the applied tool method,
\* executeMethod has raised too (it has not returned), handleError was last
\* called with the requested method name, and the execute of the calling
\* node has returned FAILED with the raised error, without output snapshot
\* and without having published anything.
C19_ToolFailureSurfaces ==
  \A n \in ToolNodes :
    toolRaised # NoError =>
      /\ toolPc = "failed"
      /\ handled # <<>>
      /\ handled[Len(handled)] = request
      /\ pc[n] = "done"
      /\ result[n].status = "FAILED"
      /\ result[n].error = toolRaised
      /\ ~result[n].hasOutput
      /\ "publish" \notin Range(steps[n])
      /\ wlog[n] = {}

C19_Witness ==
  /\ toolRaised = DataError
  /\ request = "assemblePromptWithWorldBook"
  /\ handled = <<"getChatHistory", "assemblePromptWithWorldBook",
                 "assemblePromptWithWorldBook">>
  /\ result["mid"].status = "FAILED"
  /\ result["mid"].error = DataError

\* C20: however many nodes of a class with tools have been constructed, the
\* registry holds exactly one association for its tool type once the first
\* is constructed, looking the type name up yields the group of the class,
\* the registry holds nothing else, and constructing a further node of the
\* class leaves the registry as it is.
C20_RegisterIdempotent ==
  /\ [](/\ \A c \in NodeClasses :
             ToolsOf(c) # "none" =>
               /\ Cardinality({i \in DOMAIN registry : registry[i].type = c})
                    = IF constructed[c] > 0 THEN 1 ELSE 0
               /\ constructed[c] > 0 =>
                    /\ get(registry, c) = ToolsOf(c)
                    /\ toolClass[c] = ToolsOf(c)
        /\ Len(registry) =
             Cardinality({c \in NodeClasses :
                            ToolsOf(c) # "none" /\ constructed[c] > 0}))
  /\ [][\A c \in NodeClasses :
          (constructed'[c] > constructed[c] /\ constructed[c] > 0) =>
            registry' = registry]_vars

C20_Witness ==
  /\ constructed["worldBook"] > 1
  /\ constructed["preset"] > 1
  /\ Len(registry) = 2
  /\ registry[1] = [type |-> "preset", group |-> "PresetNodeTools"]
  /\ registry[2] = [type |-> "worldBook", group |-> "WorldBookNodeTools"]

(***************************************************************************)
(* C21: the input store is read-only after construction.  The engine seeds *)
(* it with the run parameters; from then on, whatever nodes of whatever    *)
(* category have executed and however they ended (COMPLETED or FAILED),    *)
(* context.input equals the run parameters.                                *)
(***************************************************************************)
C21_InputReadOnly ==
  /\ mainState # "INITIALIZED" => input = params
  /\ \A n \in Nodes : execCount[n] > 0 => input = params

\* every category has executed, one node FAILED and others COMPLETED, and
\* the input store still holds the non-empty run parameters
C21_Witness ==
  /\ params # EmptyStore
  /\ \A c \in {ENTRY, MIDDLE, EXIT, AFTER} :
       \E n \in Nodes : NodeCategory(n) = c /\ execCount[n] > 0
  /\ \E n \in Nodes : result[n].status = "FAILED"
  /\ \E n \in Nodes : result[n].status = "COMPLETED"
  /\ \E n \in Nodes : wlog[n] # {}
  /\ input = params

(***************************************************************************)
(* C22: no node reads the output store.  Two contexts that agree on input  *)
(* and cache and differ on output yield the same resolved input for every  *)
(* node: when the EXIT node writes the output store between two            *)
(* applications of resolveInput of a node (an AFTER node or any other),    *)
(* the second application resolves exactly what the first one resolved.    *)
(***************************************************************************)
C22_OutputNeverRead ==
  [][\A n \in Nodes :
       /\ TakesStep(n, "setOutput") =>
            /\ output' # output
            /\ input' = input /\ cache' = cache
       /\ (TakesStep(n, "resolve") /\ "setOutput" \in Range(steps[n])) =>
            resolved'[n] = resolved[n]]_vars

\* an AFTER node resolved its input before and after the EXIT node wrote a
\* name it declares, which the cache does not hold: it does not see the name
C22_Witness ==
  /\ current = "after1"
  /\ steps["after1"] = <<"resolve", "setOutput", "resolve">>
  /\ "b" \in Range(getInputFields("after1"))
  /\ output["b"] # Undef
  /\ ~hasCache(cache, "b")
  /\ resolved["after1"]["b"] = Undef

(***************************************************************************)
(* C23: the cache is global to the run.  A value that a non-EXIT node W    *)
(* publishes under key k enters the cache, stays there until a later       *)
(* non-EXIT node publishes k again, and is what every node R that declares *)
(* k in inputFields resolves k to when it executes afterwards, whether or  *)
(* not R is a (transitive) successor of W: in particular an AFTER node     *)
(* resolves k to the value another AFTER node published, as long as no     *)
(* other AFTER node has published k.                                       *)
(***************************************************************************)
C23_CacheGlobal ==
  [][/\ \A W \in Nodes :
          (TakesStep(W, "publish") /\ ~isExitNode(W)) =>
            \A k \in PublishedKeys(W) : cache'[k] = callOut[W][k]
     /\ \A k \in Keys :
          cache'[k] # cache[k] =>
            \E W \in Nodes : /\ TakesStep(W, "publish")
                             /\ ~isExitNode(W)
                             /\ k \in PublishedKeys(W)
     /\ \A R \in Nodes :
          TakesStep(R, "resolve") =>
            \A k \in Range(getInputFields(R)) :
              /\ hasCache(cache, k) =>
                   resolved'[R][nodeFieldName(R, k)] = cache[k]
              /\ \A W \in AfterNodes \ {R} :
                   ( /\ <<"cache", k>> \in wlog[W]
                     /\ \A X \in AfterNodes \ {W} : <<"cache", k>> \notin wlog[X] )
                   => resolved'[R][nodeFieldName(R, k)] = callOut[W][k]]_vars

\* the AFTER node after2, which no node names as a successor, resolved "b" to
\* the value the AFTER node after1 published: no main-chain node had put "b"
\* in the cache
C23_Witness ==
  /\ \A m \in Nodes : "after2" \notin Downstream(m)
  /\ params["b"] = Undef
  /\ wlog["mid"] = {}
  /\ wlog["after1"] = {<<"cache", "b">>}
  /\ "resolve" \in Range(steps["after2"])
  /\ resolved["after2"]["b"] # Undef
  /\ resolved["after2"]["b"] = callOut["after1"]["b"]

(***************************************************************************)
(* C24: AFTER nodes produce nothing observable to the caller.  An AFTER    *)
(* node never writes the output store, whatever its _call returns and      *)
(* whatever outputFields it declares, so from the completion of the main   *)
(* chain on, while AFTER nodes run and after all of them have finished,    *)
(* the output store equals the mapping read for the caller, and a caller   *)
(* that has its result holds exactly the output store.                     *)
(***************************************************************************)
C24_AfterLeavesOutput ==
  /\ \A n \in AfterNodes : \A k \in Keys : <<"output", k>> \notin wlog[n]
  /\ mainState = "MAIN_CHAIN_COMPLETE" => output = mainResult
  /\ callerState = "returned" => callerResult = output

\* all AFTER nodes have finished; after1 declared "b" as output field and
\* published it, the output store does not hold "b", and the caller's
\* mapping is the output store
C24_Witness ==
  /\ afterState = "AFTER_COMPLETE"
  /\ "b" \in Range(getOutputFields("after1"))
  /\ wlog["after1"] = {<<"cache", "b">>}
  /\ cache["b"] # Undef
  /\ output["b"] = Undef
  /\ output["a"] # Undef
  /\ callerState = "returned"
  /\ callerResult = output

(***************************************************************************)
(* C25: the run state machine.  The main-chain state only moves            *)
(* INITIALIZED -> RUNNING_MAIN_CHAIN -> MAIN_CHAIN_COMPLETE, and           *)
(* MAIN_CHAIN_COMPLETE is entered only when an EXIT node has COMPLETED;    *)
(* the background branch only moves to AFTER_PENDING (once the main chain  *)
(* is complete) and from there to AFTER_COMPLETE or AFTER_FAILED; the      *)
(* terminal states are never left, and a step that changes the background  *)
(* state changes nothing of what the caller received.                      *)
(***************************************************************************)
C25_RunStateMachine ==
  [][/\ mainState' # mainState =>
          \/ mainState = "INITIALIZED" /\ mainState' = "RUNNING_MAIN_CHAIN"
          \/ /\ mainState = "RUNNING_MAIN_CHAIN"
             /\ mainState' = "MAIN_CHAIN_COMPLETE"
             /\ ExitCompleted
     /\ afterState' # afterState =>
          \/ /\ afterState = "NONE"
             /\ afterState' = "AFTER_PENDING"
             /\ mainState' = "MAIN_CHAIN_COMPLETE"
          \/ /\ afterState = "AFTER_PENDING"
             /\ afterState' \in {"AFTER_COMPLETE", "AFTER_FAILED"}
     /\ afterState' # afterState =>
          UNCHANGED <<output, callerState, callerResult, callerError>>
     /\ (afterState = "AFTER_PENDING" /\ afterState' # afterState) =>
          UNCHANGED <<mainState, mainResult>>
     /\ callerState = "returned" =>
          UNCHANGED <<callerState, callerResult, callerError>>]_vars

\* the background branch ended in AFTER_FAILED after the caller had received
\* the mapping of the completed main chain
C25_Witness ==
  /\ mainState = "MAIN_CHAIN_COMPLETE"
  /\ afterState = "AFTER_FAILED"
  /\ ~awaitAfterNodes
  /\ callerState = "returned"
  /\ callerResult = mainResult
  /\ callerError = NoError

\* the call in slot c is inside the polling loop of waitForTaskCompletion
Polling(c) == call[c].pc \in {"querying", "waiting"}

(***************************************************************************)
(* C26: TTS polling is bounded.  Whatever the task-status responses are,   *)
(* waitForTaskCompletion(taskId, maxRetries, ...) issues at most           *)
(* maxRetries status queries and then terminates: it returns the audio URL *)
(* of a completed response that carries a URL, fails with the task-failed  *)
(* error on a failed response, and fails with the timeout error when       *)
(* maxRetries queries were issued and none of them ended the call.         *)
(***************************************************************************)
C26_PollingBounded ==
  /\ [](\A c \in CallSlots :
          LET rec == call[c]
          IN /\ rec.queries <= rec.maxRetries
             /\ rec.i <= rec.maxRetries
             /\ (rec.pc = "returned" /\ rec.queries > 0) =>
                  rec.last = "completed" /\ rec.url \in Urls
             /\ (rec.pc = "failed" /\ rec.error = "TTS task failed") =>
                  rec.last = "failed"
             /\ (rec.pc = "failed" /\ rec.error = "TTS task timeout") =>
                  /\ rec.queries = rec.maxRetries
                  /\ rec.i = rec.maxRetries
                  /\ rec.last # "failed"
             /\ (Polling(c) /\ rec.last = "processing") =>
                  rec.i < rec.maxRetries)
  /\ \A c \in CallSlots : Polling(c) ~> Settled(c)

\* a call polled maxRetries times, was told "processing" every time and
\* failed with the timeout error
C26_Witness ==
  \E c \in CallSlots :
    /\ call[c].kind = "wait"
    /\ call[c].maxRetries = MaxRetries
    /\ call[c].queries = MaxRetries
    /\ call[c].last = "processing"
    /\ call[c].pc = "failed"
    /\ call[c].error = "TTS task timeout"

(***************************************************************************)
(* C27: the audio cache avoids regeneration.  Once generateSpeech for a    *)
(* messageId has succeeded, every later generateSpeech for that messageId  *)
(* returns the same URL without creating a TTS task or polling, until      *)
(* clearCache or clearMessageCache(messageId) is called; and               *)
(* clearMessageCache(m) removes only the entry of m.                       *)
(***************************************************************************)
C27_CacheAvoidsRegeneration ==
  /\ [](\A c \in CallSlots :
          LET rec == call[c]
          IN (rec.kind = "generate" /\ rec.prior # {}) =>
               /\ rec.pc = "returned"
               /\ rec.prior = {rec.url}
               /\ ~rec.created
               /\ rec.queries = 0)
  /\ [][\A m \in Messages :
          clearMessageCache(m) =>
            /\ audioCache'[m] = NoUrl
            /\ \A other \in Messages \ {m} :
                 audioCache'[other] = audioCache[other]]_vars

\* what a load makes of a saved tuple
Restored(s) ==
  [s EXCEPT !.workflowId = IF @ \in {"", OldWorkflowId} THEN DefaultWorkflowId
                           ELSE @]

\* C28 as stated: for every tuple (enabled, apiKey, autoPlay, workflowId)
\* saved with handleSave, loading the panel again from localStorage restores
\* exactly that tuple.
C28_RoundTripExact ==
  [][(Mount /\ saved # <<>>) => panel' = saved[1]]_vars

(***************************************************************************)
(* C28 (amended): for every tuple saved with handleSave, loading the panel *)
(* again restores enabled, apiKey and autoPlay exactly, and restores the   *)
(* workflow id exactly unless it is empty or the old workflow id: those    *)
(* two load as the default workflow id, and the item of the old id is      *)
(* rewritten in localStorage.                                              *)
(***************************************************************************)
C28_RoundTrip ==
  [][(Mount /\ saved # <<>>) =>
       /\ panel' = Restored(saved[1])
       /\ localStorage' = StoredItems(
            IF saved[1].workflowId = OldWorkflowId THEN Restored(saved[1])
            ELSE saved[1])]_vars

\* a tuple with the old workflow id and no default value in the other
\* settings was saved and loaded again: the load rewrote the item
C28_Witness ==
  /\ saved # <<>>
  /\ saved[1] = [enabled |-> TRUE, apiKey |-> "key", autoPlay |-> FALSE,
                 workflowId |-> OldWorkflowId]
  /\ localStorage.tts_workflow_id = DefaultWorkflowId
  /\ panel = Restored(saved[1])

\* some EXIT node leads to n by one or more successor links
BehindExit(D, n) ==
  \E x \in Ids(D) :
    DescIn(D, x).category = EXIT /\ n \in ReachFrom(D, Succ(D, x), {})

RECURSIVE ChainFrom(_, _, _)
ChainFrom(D, n, seen) ==
  IF n \notin Ids(D) \/ n \in seen THEN <<>>
  ELSE <<n>> \o (IF DescIn(D, n).next = <<>> THEN <<>>
                 ELSE ChainFrom(D, Head(DescIn(D, n).next), seen \cup {n}))

MainChain(D) ==
  IF EntryRoots(D) = {} THEN <<>>
  ELSE ChainFrom(D, CHOOSE e \in EntryRoots(D) : TRUE, {})

\* the nodes executed before n: the main chain up to n, and the whole main
\* chain for a node of the AFTER phase
ExecutedBefore(D, n) ==
  LET chain == MainChain(D)
  IN IF DescIn(D, n).category = AFTER THEN Range(chain)
     ELSE {chain[j] : j \in {i \in DOMAIN chain :
                               \E k \in DOMAIN chain : k > i /\ chain[k] = n}}

\* field f can be in the cache when n resolves its input
CachedBefore(D, n, f) ==
  \E p \in ExecutedBefore(D, n) :
    /\ DescIn(D, p).category # EXIT
    /\ f \in Range(DescIn(D, p).outputFields)

(***************************************************************************)
(* C30: def-before-use holds for both shipped definitions (DialogueWorkflow*)
(* and CorrectRAGWorkflow): for every node N and every name in             *)
(* N.inputFields, some non-EXIT node executed before N declares the name   *)
(* in its outputFields, so the name can be in the cache when N resolves    *)
(* its input; this includes the AFTER node, whose inputs come from the     *)
(* cache and not from the output of the EXIT node.  The same holds along   *)
(* the nodes the engine has executed of a shipped definition.              *)
(***************************************************************************)
C30_DefBeforeUse ==
  definition \in ShippedDefinitions =>
    /\ \A n \in Ids(definition) :
         \A f \in Range(DescIn(definition, n).inputFields) :
           CachedBefore(definition, n, f)
    /\ \A i \in DOMAIN executed :
         \A f \in Range(DescIn(definition, executed[i]).inputFields) :
           \E j \in 1..(i - 1) :
             /\ DescIn(definition, executed[j]).category # EXIT
             /\ f \in Range(DescIn(definition, executed[j]).outputFields)

\* the engine executed all nine nodes of DialogueWorkflow, and the AFTER node
\* of CorrectRAGWorkflow reads presetId, which only preset-1 declares
C30_Witness ==
  /\ definition = DialogueWorkflow
  /\ Len(executed) = 9
  /\ executed[9] = "output-1"
  /\ MainChain(definition) = executed
  /\ "presetId" \in Range(DescIn(CorrectRAGWorkflow, "memory-storage-1").inputFields)
  /\ {p \in Ids(CorrectRAGWorkflow) :
        "presetId" \in Range(DescIn(CorrectRAGWorkflow, p).outputFields)
        /\ DescIn(CorrectRAGWorkflow, p).category # EXIT} = {"preset-1"}

(***************************************************************************)
(* NodeBase: a node constructed from a descriptor of any declared          *)
(* category, and what it publishes.                                        *)
(***************************************************************************)
\* variant: the constructor takes the category from the descriptor
NodeBaseConstructorDeclared(cfg) ==
  [id |-> cfg.id, name |-> cfg.typeName, category |-> cfg.category,
   next |-> cfg.next]

\* the NodeBase constructor: id, name and next come from the descriptor,
\* the category from getDefaultCategory of the node class
NodeBaseConstructor(cfg) ==
  [id |-> cfg.id, name |-> cfg.typeName,
   category |-> getDefaultCategory(cfg.typeName), next |-> cfg.next]

CtorInit ==
  /\ CtorIdle
  /\ cache = EmptyStore
  /\ MainIdle
  /\ ValIdle
  /\ ToolIdle
  /\ TtsIdle
  /\ PanelIdle

\* a node is constructed from the descriptor of n with declared category c
NewNode(n, c) ==
  /\ node = <<>>
  /\ config' = [Desc(n) EXCEPT !.category = c]
  /\ node' = NodeBaseConstructor(config')
  /\ UNCHANGED <<cfgVars, ctxVars, nodeVars, engineVars, callerVars, valVars,
                 toolVars, ttsVars, panelVars, hookVars, histVars>>

\* publishOutput of the constructed node with the output out of its _call
NodePublishes(out) ==
  /\ node # <<>>
  /\ LET ctx == publishOutput(node.id, out,
                              [cache |-> cache, output |-> output, log |-> {}])
     IN /\ cache' = ctx.cache
        /\ output' = ctx.output
        /\ wlog' = [wlog EXCEPT ![node.id] = ctx.log]
  /\ UNCHANGED <<input, pc, result, resolved, callOut, steps, raised, execCount>>
  /\ UNCHANGED <<cfgVars, engineVars, callerVars, valVars, toolVars, ttsVars,
                 panelVars, ctorVars, hookVars, histVars>>

CtorNext ==
  \/ \E n \in Nodes : \E c \in Categories : NewNode(n, c)
  \/ \E out \in CallOutputs : NodePublishes(out)

CtorSpec == CtorInit /\ [][CtorNext]_vars

(***************************************************************************)
(* C31: the category of a constructed node                                 *)
(***************************************************************************)
\* C31 as stated: every node constructed from a descriptor has the category
\* its descriptor declares, for every combination of node type and declared
\* category.
C31_CategoryAsDeclared == node # <<>> => node.category = config.category

\* C31 as amended: the category of a constructed node is the default
\* category of its node type whatever its descriptor declares, its writes go
\* to the output store exactly when that category is EXIT and to the cache
\* otherwise, and the category does not change after construction.
C31_CategoryByType ==
  /\ [](node # <<>> =>
          /\ node.category = getDefaultCategory(config.typeName)
          /\ (config.category = getDefaultCategory(config.typeName)
                => node.category = config.category)
          /\ \A w \in wlog[node.id] :
               w[1] = (IF node.category = EXIT THEN "output" ELSE "cache"))
  /\ [][node # <<>> => node'.category = node.category]_vars

\* a worldBook node declared EXIT has category MIDDLE and has published its
\* field to the cache
C31_Witness ==
  /\ node # <<>>
  /\ config.typeName = "worldBook"
  /\ config.category = EXIT
  /\ node.category = MIDDLE
  /\ <<"cache", "b">> \in wlog[node.id]
  /\ output = EmptyStore

(***************************************************************************)
(* C32: what a FAILED execution leaves in the context                      *)
(***************************************************************************)
\* C32 as stated: a node whose execute ended FAILED has written nothing to
\* the context, whichever step raised the error.
C32_FailedLeavesContext ==
  \A n \in Nodes : result[n].status = "FAILED" => wlog[n] = {}

\* C32 as amended: a node whose execute ended FAILED in resolveInput,
\* beforeExecute or _call has written nothing to the context; when
\* afterExecute raised, publishOutput had run and what it wrote (declared
\* output fields, in the store of the node's category) stays written.
C32_FailedBeforePublish ==
  \A n \in Nodes :
     result[n].status = "FAILED" =>
       /\ raised[n] \in {ErrOf("resolve"), ErrOf("before"), ErrOf("call"),
                         ErrOf("after")}
       /\ raised[n] # ErrOf("after") =>
            wlog[n] = {} /\ "publish" \notin Range(steps[n])
       /\ raised[n] = ErrOf("after") =>
            /\ "publish" \in Range(steps[n])
            /\ \A w \in wlog[n] :
                 /\ w[1] = (IF NodeCategory(n) = EXIT THEN "output"
                            ELSE "cache")
                 /\ w[2] \in Range(getOutputFields(n))

\* the EXIT node FAILED in afterExecute after it published a field to the
\* output store
C32_Witness ==
  \E n \in Nodes :
    /\ result[n].status = "FAILED"
    /\ raised[n] = ErrOf("after")
    /\ NodeCategory(n) = EXIT
    /\ wlog[n] # {}
    /\ output # EmptyStore

(***************************************************************************)
(* C33: how often handleError is applied to one failure                    *)
(***************************************************************************)
\* C33: when a tool method invoked through executeTool raises, handleError
\* has been applied exactly once to that failure by the time the error
\* reaches the node (execute has ended in its catch block).
C33_HandleErrorOnce ==
  \A n \in ToolNodes :
    (toolRaised # NoError /\ pc[n] = "done" /\ result[n].status = "FAILED")
      => Len(handled) = 1

C35_OneTaskPerMessage ==
  \A c1, c2 \in CallSlots :
    (/\ c1 # c2
     /\ call[c1].kind = "generate" /\ call[c2].kind = "generate"
     /\ call[c1].msg = call[c2].msg
     /\ ~Settled(c1) /\ ~Settled(c2))
      => ~(call[c1].created /\ call[c2].created)

(***************************************************************************)
(* C36: a failed generateSpeech and the audio cache                        *)
(***************************************************************************)
\* C36: a generateSpeech call that fails propagates one of its four errors
\* and adds nothing to the audio cache: without speech content no task was
\* created and nothing was queried; when the creation failed no task
\* exists; a reported failure and a timeout come after the task was
\* created; the step in which the call fails leaves every cache entry as it
\* was, and the only writes to the cache are the entry of a call that
\* returns its URL and the two clear operations.
C36_FailedGenerateKeepsCache ==
  /\ [](\A c \in CallSlots :
          LET rec == call[c]
          IN (rec.kind = "generate" /\ rec.pc = "failed") =>
               /\ rec.error \in {"No highlighted speech content found",
                                 "TTS task creation failed",
                                 "TTS task failed", "TTS task timeout"}
               /\ rec.url = NoUrl
               /\ rec.error = "No highlighted speech content found" =>
                    ~rec.created /\ rec.queries = 0
               /\ rec.error = "TTS task creation failed" =>
                    ~rec.created /\ rec.queries = 0
               /\ rec.error \in {"TTS task failed", "TTS task timeout"} =>
                    rec.created /\ rec.queries > 0)
  /\ [][/\ (\E c \in CallSlots :
              call'[c].pc = "failed" /\ call'[c] # call[c])
            => UNCHANGED audioCache
        /\ \A m \in Messages :
             audioCache'[m] # audioCache[m] =>
               \/ audioCache'[m] = NoUrl
               \/ \E c \in CallSlots :
                    /\ call[c].pc = "querying" /\ call[c].msg = m
                    /\ call'[c].pc = "returned"
                    /\ call'[c].url = audioCache'[m]]_vars

\* a generateSpeech for one message failed on a reported task failure
\* while the entry of the other message is in the cache
C36_Witness ==
  \E c \in CallSlots : \E other \in Messages :
    /\ call[c].kind = "generate"
    /\ call[c].pc = "failed"
    /\ call[c].error = "TTS task failed"
    /\ other # call[c].msg
    /\ audioCache[other] # NoUrl
    /\ audioCache[call[c].msg] = NoUrl

(***************************************************************************)
(* useTTS: the per-message TTSState map, the single Audio element and the  *)
(* calls of generateAndPlay, play, stop and toggle.  generateSpeech of the *)
(* TTSService is taken by its outcome: it returns a URL it has cached, or  *)
(* it raises.  A play() promise is pending until the element resolves it   *)
(* or rejects it; assigning src or pausing rejects a pending one.          *)
(***************************************************************************)
DefaultState ==
  [isGenerating |-> FALSE, isPlaying |-> FALSE, error |-> Null, progress |-> 0]

\* audioRef.current before the effect has run, and a new Audio()
NoAudio == [exists |-> FALSE, src |-> NoUrl, playing |-> FALSE, pending |-> 0]

NewAudio == [exists |-> TRUE, src |-> NoUrl, playing |-> FALSE, pending |-> 0]

NoHookCall == [pc |-> "idle", op |-> "none", msg |-> "none", error |-> Null]

\* the error generateSpeech raises (one stands for its four), the URL it
\* returns, and the rejection of play()
GenerationErrors == {"TTS task failed"}

HookUrls == {"u1"}

AbortError == "AbortError"

\* updateState: the updates are merged over the state of the message
updateState(st, messageId, updates) ==
  [st EXCEPT ![messageId] = updates @@ st[messageId]]

\* the hook as one value, for the statements that run one after another
Hook ==
  [states |-> states, audio |-> audioRef, current |-> currentPlayingRef,
   calls |-> hookCall]

\* the call in slot c is over
HookSettled(c) == hookCall[c].pc \in {"idle", "resolved", "failed"}

Reject(h, c, err) ==
  [h EXCEPT !.calls[c].pc = "failed", !.calls[c].error = err]

\* variant: the catch block of generateAndPlay leaves isGenerating as it is
CatchBlockKeepingGenerating(h, c, err) ==
  Reject([h EXCEPT !.states = updateState(h.states, h.calls[c].msg,
                                          [error |-> err])],
         c, err)

\* the catch block of the call in slot c: generateAndPlay records the error
\* and resets isGenerating and progress, play records the error; both
\* raise it again
CatchBlock(h, c, err) ==
  LET rec == h.calls[c]
      updates == IF rec.op = "generateAndPlay"
                 THEN [isGenerating |-> FALSE, error |-> err, progress |-> 0]
                 ELSE [error |-> err]
  IN Reject([h EXCEPT !.states = updateState(h.states, rec.msg, updates)],
            c, err)

\* the pending play() promise, if any, is rejected and the call that awaits
\* it goes to its catch block
RejectPending(h, err) ==
  IF h.audio.pending = 0 THEN h
  ELSE CatchBlock([h EXCEPT !.audio.pending = 0], h.audio.pending, err)

\* audio.src = url; await audio.play(): the assignment starts a load, which
\* stops the element and rejects a pending play(); the new promise is pending
StartPlayback(h, c, url) ==
  LET h1 == [h EXCEPT !.audio.src = url, !.audio.playing = FALSE,
                      !.audio.pending = c, !.calls[c].pc = "playing"]
  IN IF h.audio.pending = 0 THEN h1
     ELSE CatchBlock(h1, h.audio.pending, AbortError)

\* variant: the playback that is stopped before a new one keeps its state
StopCurrentKeepingState(h, except) == h

\* "stop current playback if any": the message recorded as playing, unless
\* it is the excepted one, is set to not playing
StopCurrent(h, except) ==
  IF h.current # "none" /\ h.current # except
  THEN [h EXCEPT !.states = updateState(h.states, h.current,
                                        [isPlaying |-> FALSE])]
  ELSE h

\* generateAndPlay from the point where it has the URL
AfterGeneration(h, c, url) ==
  LET m == h.calls[c].msg
      h1 == [h EXCEPT !.states = updateState(h.states, m,
                          [isGenerating |-> FALSE, progress |-> 0])]
  IN IF autoPlayOption
     THEN StartPlayback(StopCurrent(h1, "none"), c, url)
     ELSE [h1 EXCEPT !.calls[c].pc = "resolved"]

\* play from the point where the service and the element exist
PlayCached(h, c) ==
  LET m == h.calls[c].msg
      cachedUrl == audioCache[m]
  IN IF cachedUrl = NoUrl
     THEN Reject([h EXCEPT !.states =
                     updateState(h.states, m,
                                 [error |-> "Audio not generated yet"])],
                 c, "Audio not generated yet")
     ELSE StartPlayback(StopCurrent(h, m), c, cachedUrl)

\* stop: the element is paused, which rejects a pending play(); with a
\* messageId that message is set to not playing and forgotten if it is the
\* recorded one, without one the recorded message is
stopped(h, messageId) ==
  LET h1 == [h EXCEPT !.audio.playing = FALSE]
      h2 == IF messageId # "none"
            THEN [h1 EXCEPT
                    !.states = updateState(h1.states, messageId,
                                           [isPlaying |-> FALSE]),
                    !.current = IF h1.current = messageId THEN "none"
                                ELSE h1.current]
            ELSE IF h1.current # "none"
            THEN [h1 EXCEPT
                    !.states = updateState(h1.states, h1.current,
                                           [isPlaying |-> FALSE]),
                    !.current = "none"]
            ELSE h1
  IN RejectPending(h2, AbortError)

\* the hook takes the value h
Becomes(h) ==
  /\ states' = h.states
  /\ audioRef' = h.audio
  /\ currentPlayingRef' = h.current
  /\ hookCall' = h.calls

nonHookVars ==
  <<cfgVars, ctxVars, nodeVars, engineVars, callerVars, valVars, toolVars,
    call, invocations, generated, panelVars, ctorVars, autoPlayOption,
    histVars>>

\* the hook after its effect has run: with an apiKey the service and the
\* Audio element exist, without one they do not
HookInit ==
  /\ states = [m \in Messages |-> DefaultState]
  /\ audioRef \in {NoAudio, NewAudio}
  /\ currentPlayingRef = "none"
  /\ hookCall = [c \in CallSlots |-> NoHookCall]
  /\ autoPlayOption \in BOOLEAN
  /\ audioCache = [m \in Messages |-> NoUrl]
  /\ call = <<>>
  /\ invocations = 0
  /\ generated = <<>>
  /\ config = <<>>
  /\ node = <<>>
  /\ history = <<>>
  /\ cache = EmptyStore
  /\ MainIdle
  /\ ValIdle
  /\ ToolIdle
  /\ PanelIdle

\* generateAndPlay up to its first await
generateAndPlay(c, messageId) ==
  /\ HookSettled(c)
  /\ LET rec == [NoHookCall EXCEPT !.op = "generateAndPlay", !.msg = messageId]
         h0 == [Hook EXCEPT !.calls[c] = rec]
     IN IF audioRef = NoAudio
        THEN Becomes(Reject(h0, c, "TTS service not initialized"))
        ELSE LET h1 == [h0 EXCEPT !.states = updateState(h0.states, messageId,
                          [isGenerating |-> TRUE, error |-> Null,
                           progress |-> 0])]
                 cachedUrl == audioCache[messageId]
             IN IF cachedUrl # NoUrl
                THEN Becomes(AfterGeneration(
                       [h1 EXCEPT !.states = updateState(h1.states, messageId,
                                                         [progress |-> 100])],
                       c, cachedUrl))
                ELSE Becomes([h1 EXCEPT !.calls[c].pc = "generating"])
  /\ UNCHANGED audioCache
  /\ UNCHANGED nonHookVars

\* the onProgress callback of the generation in slot c
OnProgress(c) ==
  /\ hookCall[c].pc = "generating"
  /\ states[hookCall[c].msg].progress # 50
  /\ states' = updateState(states, hookCall[c].msg, [progress |-> 50])
  /\ UNCHANGED <<audioRef, currentPlayingRef, hookCall, audioCache>>
  /\ UNCHANGED nonHookVars

\* generateSpeech returns the URL it has put in the service's cache
GenerationReturns(c, url) ==
  /\ hookCall[c].pc = "generating"
  /\ audioCache' = [audioCache EXCEPT ![hookCall[c].msg] = url]
  /\ Becomes(AfterGeneration(Hook, c, url))
  /\ UNCHANGED nonHookVars

\* generateSpeech raises
GenerationFails(c, err) ==
  /\ hookCall[c].pc = "generating"
  /\ Becomes(CatchBlock(Hook, c, err))
  /\ UNCHANGED audioCache
  /\ UNCHANGED nonHookVars

\* play up to its await
play(c, messageId) ==
  /\ HookSettled(c)
  /\ LET rec == [NoHookCall EXCEPT !.op = "play", !.msg = messageId]
         h0 == [Hook EXCEPT !.calls[c] = rec]
     IN IF audioRef = NoAudio
        THEN Becomes(Reject(h0, c, "TTS service not initialized"))
        ELSE Becomes(PlayCached(h0, c))
  /\ UNCHANGED audioCache
  /\ UNCHANGED nonHookVars

\* the element resolves the pending play(): the call records its message
\* as the playing one and sets it to playing
PlayResolves(c) ==
  /\ audioRef # NoAudio
  /\ audioRef.pending = c
  /\ LET rec == hookCall[c]
         updates == IF rec.op = "generateAndPlay" THEN [isPlaying |-> TRUE]
                    ELSE [isPlaying |-> TRUE, error |-> Null]
     IN Becomes([Hook EXCEPT
                   !.audio.pending = 0, !.audio.playing = TRUE,
                   !.current = rec.msg,
                   !.states = updateState(states, rec.msg, updates),
                   !.calls[c].pc = "resolved"])
  /\ UNCHANGED audioCache
  /\ UNCHANGED nonHookVars

\* the element rejects the pending play()
PlayRejects(c) ==
  /\ audioRef # NoAudio
  /\ audioRef.pending = c
  /\ Becomes(RejectPending(Hook, AbortError))
  /\ UNCHANGED audioCache
  /\ UNCHANGED nonHookVars

\* stop(messageId), "none" for a call without messageId
stop(messageId) ==
  /\ IF audioRef = NoAudio
     THEN UNCHANGED <<states, audioRef, currentPlayingRef, hookCall>>
     ELSE Becomes(stopped(Hook, messageId))
  /\ UNCHANGED audioCache
  /\ UNCHANGED nonHookVars

\* toggle: a message that is playing is stopped, one with cached audio is
\* played, any other raises
toggle(c, messageId) ==
  /\ HookSettled(c)
  /\ LET rec == [NoHookCall EXCEPT !.op = "play", !.msg = messageId]
         h0 == [Hook EXCEPT !.calls[c] = rec]
     IN IF states[messageId].isPlaying
        THEN IF audioRef = NoAudio THEN Becomes(Hook)
             ELSE Becomes(stopped(Hook, messageId))
        ELSE IF audioRef # NoAudio /\ audioCache[messageId] # NoUrl
             THEN Becomes(PlayCached(h0, c))
             ELSE Becomes(Reject(h0, c, "Audio not generated yet"))
  /\ UNCHANGED audioCache
  /\ UNCHANGED nonHookVars

\* the 'ended' event of the element
handleEnded ==
  /\ audioRef # NoAudio
  /\ audioRef.playing
  /\ Becomes([StopCurrent(Hook, "none") EXCEPT
                !.audio.playing = FALSE, !.current = "none"])
  /\ UNCHANGED audioCache
  /\ UNCHANGED nonHookVars

\* the 'error' event of the element, which also rejects a pending play()
handleAudioError ==
  /\ audioRef # NoAudio
  /\ audioRef.src # NoUrl
  /\ LET h1 == IF currentPlayingRef # "none"
               THEN [Hook EXCEPT
                       !.states = updateState(states, currentPlayingRef,
                                    [isPlaying |-> FALSE,
                                     error |-> "Audio playback failed"]),
                       !.current = "none"]
               ELSE Hook
     IN Becomes(RejectPending([h1 EXCEPT !.audio.playing = FALSE],
                              AbortError))
  /\ UNCHANGED audioCache
  /\ UNCHANGED nonHookVars

\* clearCache of the hook: the service's cache and every TTSState go
hookClearCache ==
  /\ audioRef # NoAudio
  /\ audioCache' = [m \in Messages |-> NoUrl]
  /\ states' = [m \in Messages |-> DefaultState]
  /\ UNCHANGED <<audioRef, currentPlayingRef, hookCall>>
  /\ UNCHANGED nonHookVars

\* clearMessageCache of the hook
hookClearMessageCache(messageId) ==
  /\ audioRef # NoAudio
  /\ audioCache' = [audioCache EXCEPT ![messageId] = NoUrl]
  /\ states' = [states EXCEPT ![messageId] = DefaultState]
  /\ UNCHANGED <<audioRef, currentPlayingRef, hookCall>>
  /\ UNCHANGED nonHookVars

HookNext ==
  \/ \E c \in CallSlots, m \in Messages : generateAndPlay(c, m)
  \/ \E c \in CallSlots : OnProgress(c)
  \/ \E c \in CallSlots, url \in HookUrls : GenerationReturns(c, url)
  \/ \E c \in CallSlots, err \in GenerationErrors : GenerationFails(c, err)
  \/ \E c \in CallSlots, m \in Messages : play(c, m)
  \/ \E c \in CallSlots : PlayResolves(c)
  \/ \E c \in CallSlots : PlayRejects(c)
  \/ \E m \in Messages \cup {"none"} : stop(m)
  \/ \E c \in CallSlots, m \in Messages : toggle(c, m)
  \/ handleEnded
  \/ handleAudioError
  \/ hookClearCache
  \/ \E m \in Messages : hookClearMessageCache(m)

HookSpec == HookInit /\ [][HookNext]_vars

C38_StopClearsPlaying ==
  [][(\E messageId \in Messages \cup {"none"} : stop(messageId))
       => /\ ~audioRef'.playing
          /\ \A m \in Messages : ~states'[m].isPlaying]_vars

(***************************************************************************)
(* C39: isGenerating and the outcome of generateAndPlay                    *)
(***************************************************************************)
\* the generateAndPlay call in slot c settles in this step
SettlesNow(c) ==
  /\ hookCall'[c] # hookCall[c]
  /\ hookCall'[c].op = "generateAndPlay"
  /\ hookCall'[c].pc \in {"resolved", "failed"}

\* a generateAndPlay call for m is awaiting generateSpeech
Generating(m) ==
  \E c \in CallSlots :
    /\ hookCall[c].op = "generateAndPlay"
    /\ hookCall[c].msg = m
    /\ hookCall[c].pc = "generating"

\* C39 as stated: every generateAndPlay(messageId) call that settles leaves
\* isGenerating = false for that message, on success and on failure; on
\* failure the error message is recorded in the state of the message and
\* raised again; isGenerating is true for a message only while a generation
\* for it is in flight.
C39_GenerateAndPlaySettles ==
  /\ [](\A m \in Messages : states[m].isGenerating => Generating(m))
  /\ [][\A c \in CallSlots :
          SettlesNow(c) =>
            /\ ~states'[hookCall'[c].msg].isGenerating
            /\ hookCall'[c].pc = "failed" =>
                 /\ hookCall'[c].error # Null
                 /\ states'[hookCall'[c].msg].error = hookCall'[c].error]_vars

\* C39 as amended: a generateAndPlay call made while the service is not
\* initialized is rejected with that error and leaves every TTSState as it
\* was; every other call that settles has reset isGenerating, which is
\* false for its message when it settles unless another generateAndPlay
\* call for that message is still generating; when it fails, the error is
\* recorded in the state of the message and raised again; isGenerating is
\* true for a message only while a generation for it is in flight.
C39_GenerateAndPlayResets ==
  /\ [](\A m \in Messages : states[m].isGenerating => Generating(m))
  /\ [][\A c \in CallSlots :
          SettlesNow(c) =>
            LET m == hookCall'[c].msg
                others == \E d \in CallSlots \ {c} :
                            /\ hookCall'[d].op = "generateAndPlay"
                            /\ hookCall'[d].msg = m
                            /\ hookCall'[d].pc = "generating"
            IN IF hookCall'[c].error = "TTS service not initialized"
               THEN /\ ~audioRef.exists
                    /\ hookCall'[c].pc = "failed"
                    /\ states' = states
               ELSE /\ audioRef.exists
                    /\ states'[m].isGenerating => others
                    /\ hookCall'[c].pc = "failed" =>
                         /\ hookCall'[c].error # Null
                         /\ states'[m].error = hookCall'[c].error
                         /\ ~states'[m].isGenerating]_vars

\* a generateAndPlay call failed in generateSpeech: the error is in the
\* state of its message and isGenerating is false again
C39_Witness ==
  \E c \in CallSlots :
    /\ hookCall[c].op = "generateAndPlay"
    /\ hookCall[c].pc = "failed"
    /\ hookCall[c].error = "TTS task failed"
    /\ states[hookCall[c].msg].error = "TTS task failed"
    /\ ~states[hookCall[c].msg].isGenerating
    /\ audioCache[hookCall[c].msg] = NoUrl

(***************************************************************************)
(* WorldBookNodeTools.getChatHistory on a dialogue tree: the messages of   *)
(* the path to the current node and the slice that is returned.            *)
(***************************************************************************)
MaxPath == 3

MaxWindow == 2

PathNodeIds == <<"n1", "n2", "n3", "n4", "n5">>

\* a dialogue path from the root: the first node hangs under "root", every
\* other node under the one before it; userInput and assistantResponse are
\* texts of the node or empty
PathOf(shape) ==
  [i \in DOMAIN shape |->
     [nodeId |-> PathNodeIds[i],
      parentNodeId |-> IF i = 1 THEN "root" ELSE PathNodeIds[i - 1],
      userInput |-> IF shape[i].user THEN "q-" \o PathNodeIds[i] ELSE "",
      assistantResponse |->
        IF shape[i].assistant THEN "r-" \o PathNodeIds[i] ELSE ""]]

NodeShapes == [user : BOOLEAN, assistant : BOOLEAN]

Paths ==
  UNION {{PathOf(shape) : shape \in [1..n -> NodeShapes]} : n \in 0..MaxPath}

\* the loop over nodePath: a node under the root that has an assistant
\* response is skipped, otherwise its user input and its assistant response
\* are pushed when not empty
RECURSIVE collectMessages(_, _)
collectMessages(nodePath, messages) ==
  IF nodePath = <<>> THEN messages
  ELSE LET n == Head(nodePath)
           withUser ==
             IF n.userInput # ""
             THEN Append(messages, [role |-> "user", content |-> n.userInput,
                                    id |-> Len(messages)])
             ELSE messages
           withAssistant ==
             IF n.assistantResponse # ""
             THEN Append(withUser, [role |-> "assistant",
                                    content |-> n.assistantResponse,
                                    id |-> Len(withUser)])
             ELSE withUser
       IN IF n.parentNodeId = "root" /\ n.assistantResponse # ""
          THEN collectMessages(Tail(nodePath), messages)
          ELSE collectMessages(Tail(nodePath), withAssistant)

\* Array.prototype.slice(start): a negative start counts from the end, any
\* other start (zero, which -0 is, included) from the front
slice(array, start) ==
  LET k == IF start < 0
           THEN (IF Len(array) + start > 0 THEN Len(array) + start ELSE 0)
           ELSE (IF start < Len(array) THEN start ELSE Len(array))
  IN SubSeq(array, k + 1, Len(array))

\* the try block of getChatHistory once the tree has been read
recentMessages(dialogueTree, nodePath, contextWindow) ==
  IF dialogueTree = "none" THEN <<>>
  ELSE LET path == IF dialogueTree # "root" THEN nodePath ELSE <<>>
           messages == collectMessages(path, <<>>)
       IN slice(messages, -contextWindow * 2)

nonHistVars ==
  <<cfgVars, ctxVars, nodeVars, engineVars, callerVars, valVars, toolVars,
    ttsVars, panelVars, ctorVars, hookVars>>

\* a call that is about to be made: there is no dialogue tree, its current
\* node is the root, or it is the last node of the path
HistInit ==
  /\ \E nodePath \in Paths, contextWindow \in 0..MaxWindow :
       \E dialogueTree \in {"none", "root"}
            \cup {nodePath[i].nodeId : i \in {Len(nodePath)} \ {0}} :
         history = [dialogueTree |-> dialogueTree, nodePath |-> nodePath,
                    contextWindow |-> contextWindow, via |-> "none",
                    result |-> <<>>]
  /\ config = <<>>
  /\ node = <<>>
  /\ states = <<>>
  /\ audioRef = <<>>
  /\ currentPlayingRef = "none"
  /\ hookCall = <<>>
  /\ autoPlayOption = FALSE
  /\ cache = EmptyStore
  /\ MainIdle
  /\ ValIdle
  /\ ToolIdle
  /\ TtsIdle
  /\ PanelIdle

\* getChatHistory invoked as a tool method with the contextWindow as given
GetChatHistory ==
  /\ history.via = "none"
  /\ history' =
       [history EXCEPT
          !.via = "tool",
          !.result = recentMessages(history.dialogueTree, history.nodePath,
                                    history.contextWindow)]
  /\ UNCHANGED nonHistVars

\* WorldBookNode._call: input.contextWindow || 5 is handed through
\* assemblePromptWithWorldBook to getChatHistory
WorldBookNodeCall ==
  /\ history.via = "none"
  /\ LET contextWindow ==
           IF history.contextWindow = 0 THEN 5 ELSE history.contextWindow
     IN history' =
          [history EXCEPT
             !.via = "node",
             !.result = recentMessages(history.dialogueTree,
                                       history.nodePath, contextWindow)]
  /\ UNCHANGED nonHistVars

HistNext ==
  \/ GetChatHistory
  \/ WorldBookNodeCall

HistSpec == HistInit /\ [][HistNext]_vars

(***************************************************************************)
(* C40: the size of the returned chat history                              *)
(***************************************************************************)
\* C40: getChatHistory returns at most contextWindow * 2 messages, the most
\* recent ones of the dialogue path in their original order, for every
\* contextWindow >= 0 and every dialogue path, and the empty list when there
\* is no dialogue tree or the current node is the root.
C40_AtMostTwiceWindow ==
  history # <<>> /\ history.via = "tool" =>
    LET messages == collectMessages(history.nodePath, <<>>)
        n == Len(history.result)
    IN /\ n <= history.contextWindow * 2
       /\ n <= Len(messages)
       /\ history.result = SubSeq(messages, Len(messages) - n + 1, Len(messages))
       /\ (n < history.contextWindow * 2 /\ history.dialogueTree \notin {"none", "root"}
             => n = Len(messages))
       /\ (history.dialogueTree \in {"none", "root"} => history.result = <<>>)

====
